---- MODULE Spec2Model ----
(***************************************************************************)
(* A model of the concurrent HTTP fetching core of bongocat-framework:     *)
(* the batch operations (AsyncBongoCat.scrape_multiple and friends), the   *)
(* AsyncSessionManager / SessionManager, the RateLimiter and the           *)
(* ProxyHandler.  Each component has its own specification; the variables  *)
(* of the other components are frozen at their constructed values.         *)
(***************************************************************************)
EXTENDS Integers, Sequences, FiniteSets, TLC

VARIABLES
    \* ---- batch operations (async_scraper.py, scraper.py, async_session_manager.py)
    bOp,          \* which batch operation is running
    urls,         \* the input list of URLs
    outcome,      \* per input position: "ok" or the message of the exception the fetch raises
    batch_size,   \* batch_size argument of scrape_with_concurrency_control
    bPc,          \* position of the batch call
    bPos,         \* loop variable i of scrape_with_concurrency_control (0-based)
    bTask,        \* per input position: "unstarted" | "running" | "done"
    bTaskResult,  \* per input position: what the task's coroutine produced
    bDoneOrder,   \* positions of the current gather in the order their tasks completed
    all_results,  \* the list the batch operation returns
    \* ---- AsyncSessionManager and the fetches running through it
    max_retries,          \* AsyncSessionManager.max_retries
    concurrent_limit,     \* AsyncSessionManager.concurrent_limit
    semaphore,            \* value of AsyncSessionManager.semaphore
    sessions,             \* AsyncSessionManager.sessions: session id -> handle
    constructed,          \* session ids in the order their handles were constructed
    connector_cache,      \* AsyncSessionManager._connector_cache: the session ids it has keys for
    handle_config,        \* per handle, in construction order: the Retry its adapter was given
    session_stats,        \* AsyncSessionManager.session_stats (a defaultdict)
    global_failure_rate,  \* AsyncSessionManager.global_failure_rate, as num/den
    fPc,                  \* per fetch: its position
    fSid,                 \* per fetch: the session id it uses
    fHandle,              \* per fetch: the handle get_session returned (0: none yet)
    fRetries,             \* per fetch: local variable retries of make_request
    fAdaptive,            \* per fetch: local variable adaptive_retries of make_request
    fDispatches,          \* per fetch: session.request() calls made so far by its retry loop
    fWaits,               \* per fetch: number of RateLimiter.wait() calls made
    fBackoff,             \* per fetch: the backoff delay last slept, in tenths of a second
    fResult,              \* per fetch: the terminal outcome
    \* ---- RateLimiter and the threads calling wait()
    now,                  \* time.time(), in ticks of a quarter second
    min_interval,         \* RateLimiter.min_interval, in ticks
    burst_limit,          \* RateLimiter.burst_limit
    last_request_time,    \* RateLimiter.last_request_time
    request_times,        \* RateLimiter.request_times (deque, maxlen 2 * burst_limit)
    lock,                 \* RateLimiter.lock: the thread holding it, 0 when free
    adaptive_mode,        \* RateLimiter.adaptive_mode
    current_delay,        \* RateLimiter.current_delay, in ticks
    rPc,                  \* per thread: its position in wait()
    rWake,                \* per thread: end of the time.sleep() it is in
    rReturns,             \* the times at which wait() calls returned, in order
    rPenalties,           \* number of burst penalty sleeps wait() calls have started
    \* ---- ProxyHandler
    proxy_list,           \* ProxyHandler.proxy_list
    working_proxies,      \* ProxyHandler.working_proxies
    failed_proxies,       \* ProxyHandler.failed_proxies
    last_validation,      \* ProxyHandler.last_validation, in ticks of 100 s
    pClock,               \* time.time() as the ProxyHandler reads it, in ticks of 100 s
    pOp,                  \* the operation of the ProxyHandler that ran last
    pResult,              \* what the last get_proxy() call produced
    \* ---- the life cycle of a connection manager (get_session, close_session, close_all)
    mKind,                \* "async": AsyncSessionManager, "sync": SessionManager
    closedHandles,        \* the handles whose close() has been called
    cPc,                  \* position of the close_all call
    cSeen,                \* entries the running loop of close_all has visited
    cSize,                \* size of the dict when the running loop of close_all began
    cCalls,               \* number of close_all calls that have ended
    mOp,                  \* the manager operation that ran last
    mRaised,              \* what the last manager operation that ended raised ("none": it returned)
    \* ---- the adaptive tuning functions of the managers, applied to given inputs
    tBase,                \* self.max_retries of the manager
    tRates,               \* two values of self.global_failure_rate, the first <= the second
    tAttempt,             \* the attempt number the delay is computed for
    tRetries,             \* i -> _calculate_adaptive_retries() under tRates[i], once computed
    tBackoff,             \* <<kind, i>> -> factor and delay of that manager under tRates[i]
    \* ---- the adaptive mode of the RateLimiter (report_success, report_failure, set_rate)
    success_count,        \* self.success_count
    failure_count,        \* self.failure_count
    aPc,                  \* reporting thread -> position inside report_success / report_failure
    aReg,                 \* reporting thread -> the value it has loaded and not yet stored back
    aStatus,              \* reporting thread -> the status_code argument of its report_failure
    aFailureCalls,        \* number of report_failure() calls made in adaptive mode
    aOps,                 \* number of limiter operations called so far
    \* ---- the UserAgentRotator
    all_agents,           \* self.all_agents, a list
    custom_agents,        \* self.custom_agents, a list
    usage_stats,          \* self.usage_stats: agent -> number of times it was handed out
    uOp,                  \* the operation of the rotator that ran last
    uResult               \* what the last get_*_agent call produced

batchVars == <<bOp, urls, outcome, batch_size, bPc, bPos, bTask, bTaskResult,
               bDoneOrder, all_results>>

mgrVars == <<max_retries, concurrent_limit, semaphore, sessions, constructed,
             connector_cache, handle_config, session_stats, global_failure_rate>>

fetchVars == <<fPc, fSid, fHandle, fRetries, fAdaptive, fDispatches,
               fWaits, fBackoff, fResult>>

rlVars == <<now, min_interval, burst_limit, last_request_time, request_times, lock,
            adaptive_mode, current_delay, rPc, rWake, rReturns, rPenalties>>

proxyVars == <<proxy_list, working_proxies, failed_proxies, last_validation, pClock,
               pOp, pResult>>

closeVars == <<mKind, closedHandles, cPc, cSeen, cSize, cCalls, mOp, mRaised>>

tuneVars == <<tBase, tRates, tAttempt, tRetries, tBackoff>>

adaptVars == <<success_count, failure_count, aPc, aReg, aStatus, aFailureCalls, aOps>>

waitVars == <<now, burst_limit, last_request_time, request_times, lock, rPc, rWake,
              rReturns, rPenalties>>

rotVars == <<all_agents, custom_agents, usage_stats, uOp, uResult>>

moreVars == <<adaptVars, rotVars>>

vars == <<batchVars, mgrVars, fetchVars, rlVars, proxyVars, closeVars, tuneVars, moreVars>>

otherThanBatch == <<mgrVars, fetchVars, rlVars, proxyVars, closeVars, tuneVars, moreVars>>
otherThanFetch == <<batchVars, rlVars, proxyVars, closeVars, tuneVars, moreVars>>
otherThanLimiter == <<batchVars, mgrVars, fetchVars, proxyVars, closeVars, tuneVars, moreVars>>
otherThanProxy == <<batchVars, mgrVars, fetchVars, rlVars, closeVars, tuneVars, moreVars>>
otherThanManager == <<batchVars, fetchVars, rlVars, proxyVars, tuneVars, moreVars>>
otherThanAdaptive == <<batchVars, mgrVars, fetchVars, proxyVars, closeVars, tuneVars, waitVars,
                       rotVars>>
otherThanRotator == <<batchVars, mgrVars, fetchVars, rlVars, proxyVars, closeVars, tuneVars,
                      adaptVars>>
otherThanTuning == <<batchVars, mgrVars, fetchVars, rlVars, proxyVars, closeVars, moreVars>>

(***************************************************************************)
(* Bounds of the model.                                                    *)
(***************************************************************************)
MaxUrls == 3
MaxBatch == 2
NumFetches == 2
MaxLimit == 2
MaxBaseRetries == 2
NumThreads == 2
MaxWaits == 3
MaxInterval == 3
MaxBurst == 2
MaxTime == 6
NumProxies == 2
MaxPool == 2
MaxProxyTime == 4
MaxHandles == 3
MaxCloseCalls == 2
MaxTuneBase == 11
MaxRateNum == 10
MaxAttempt == 1
NumReporters == 2
MaxReports == 3
MaxPriorRequests == 11
NumDefault == 2
NumCustom == 2
MaxCustomArg == 2
MaxUses == 1

UrlNames == {"u1", "u2"}
Msgs == {"timeout", "refused"}
NoResult == [kind |-> "none"]

RECURSIVE SeqsUpTo(_, _)
SeqsUpTo(S, n) ==
    IF n = 0 THEN {<<>>}
    ELSE LET shorter == SeqsUpTo(S, n - 1)
         IN  shorter \cup {Append(s, x) : s \in {t \in shorter : Len(t) = n - 1}, x \in S}

Min(a, b) == IF a < b THEN a ELSE b
Max(a, b) == IF a > b THEN a ELSE b

(***************************************************************************)
(* Batch operations.                                                       *)
(***************************************************************************)
BatchOps == {"scrape_multiple", "scrape_with_concurrency_control",
             "make_concurrent_requests", "sync_scrape_multiple"}

\* The dict AsyncBongoCat.scrape / BongoCat.scrape returns when the fetch returned.
SuccessResult(i) ==
    [kind |-> "dict", url |-> urls[i], status |-> "success", error |-> "none", task |-> i]

\* The dict built from a caught exception e (its message, and the task that raised it).
ErrorResult(i, e) ==
    [kind |-> "dict", url |-> urls[i], status |-> "error", error |-> e.msg, task |-> e.task]

\* The exception a fetch raises at input position i.
FetchException(i) == [kind |-> "exc", msg |-> outcome[i], task |-> i]

\* AsyncBongoCat.scrape / BongoCat.scrape: the try/except around the fetch turns
\* every exception into an error dict, so the coroutine always returns a dict.
Scrape(i) ==
    IF outcome[i] = "ok" THEN SuccessResult(i) ELSE ErrorResult(i, FetchException(i))

\* AsyncSessionManager.make_request as make_concurrent_requests sees it: it
\* returns the response data or raises.
MakeRequestResult(i) ==
    IF outcome[i] = "ok"
    THEN [kind |-> "data", url |-> urls[i], task |-> i]
    ELSE FetchException(i)

\* What the coroutine of the task at position i produces.
TaskCoroutine(i) ==
    IF bOp = "make_concurrent_requests" THEN MakeRequestResult(i) ELSE Scrape(i)

\* asyncio.gather(*tasks, return_exceptions=True): exceptions are returned as values.
GatherRaisesFirst == FALSE

GatherReturnExceptions == TRUE

\* asyncio.gather: the result list is in the order of the awaitables passed in
\* (positions lo..hi), whatever order they completed in.
GatherByCompletion(lo, hi, order) ==
    [k \in 1..(hi - lo + 1) |-> bTaskResult[order[k]]]

GatherResults(lo, hi, order) ==
    [k \in 1..(hi - lo + 1) |-> bTaskResult[lo + k - 1]]

\* The "for i, result in enumerate(results)" loop of scrape_multiple and
\* make_concurrent_requests over the gathered list of positions lo..hi.
ProcessResults(lo, hi, results) ==
    [k \in 1..Len(results) |->
        IF results[k].kind = "exc" THEN ErrorResult(lo + k - 1, results[k])
        ELSE IF results[k].kind = "data"
             THEN [kind |-> "dict", url |-> results[k].url, status |-> "success",
                   error |-> "none", task |-> results[k].task]
             ELSE results[k]]

\* First and last input position (1-based) of the gather in progress.
BatchLo == bPos + 1

\* every remaining URL in one gather
BatchHiWholeList == Len(urls)

BatchHi ==
    IF bOp = "scrape_with_concurrency_control"
    THEN Min(bPos + batch_size, Len(urls))
    ELSE Len(urls)

BatchInit ==
    /\ bOp \in BatchOps
    /\ urls \in SeqsUpTo(UrlNames, MaxUrls)
    /\ outcome \in [1..Len(urls) -> {"ok"} \cup Msgs]
    /\ batch_size \in 1..MaxBatch
    /\ bOp # "scrape_with_concurrency_control" => batch_size = 1
    /\ bPc = "call"
    /\ bPos = 0
    /\ bTask = [i \in 1..Len(urls) |-> "unstarted"]
    /\ bTaskResult = [i \in 1..Len(urls) |-> NoResult]
    /\ bDoneOrder = <<>>
    /\ all_results = <<>>

\* "if not urls: return []" of scrape_multiple / scrape_with_concurrency_control;
\* gather() of nothing and the empty for loop give [] in the other two.
BatchEmpty ==
    /\ bPc = "call"
    /\ urls = <<>>
    /\ bPc' = "returned"
    /\ all_results' = <<>>
    /\ UNCHANGED <<bOp, urls, outcome, batch_size, bPos, bTask, bTaskResult, bDoneOrder, otherThanBatch>>

\* The "for url in urls: tasks.append(self.scrape(url))" loop followed by the
\* call of asyncio.gather: every coroutine of the batch is scheduled.
BatchLaunch ==
    /\ bPc \in {"call", "next"}
    /\ bOp # "sync_scrape_multiple"
    /\ urls # <<>>
    /\ bPc' = "gathering"
    /\ bTask' = [i \in 1..Len(urls) |->
                    IF i \in BatchLo..BatchHi THEN "running" ELSE bTask[i]]
    /\ bDoneOrder' = <<>>
    /\ UNCHANGED <<bOp, urls, outcome, batch_size, bPos, bTaskResult, all_results, otherThanBatch>>

\* One task of the gather completes; tasks complete in any order.
TaskComplete(i) ==
    /\ bPc = "gathering"
    /\ bTask[i] = "running"
    /\ bTask' = [bTask EXCEPT ![i] = "done"]
    /\ bTaskResult' = [bTaskResult EXCEPT ![i] = TaskCoroutine(i)]
    /\ bDoneOrder' = Append(bDoneOrder, i)
    /\ UNCHANGED <<bOp, urls, outcome, batch_size, bPc, bPos, all_results, otherThanBatch>>

\* gather returns once every task is done; the results are processed and, in
\* scrape_with_concurrency_control, appended to all_results.
GatherReturn ==
    /\ bPc = "gathering"
    /\ \A i \in BatchLo..BatchHi : bTask[i] = "done"
    /\ LET gathered == GatherResults(BatchLo, BatchHi, bDoneOrder)
           raises == /\ ~GatherReturnExceptions
                     /\ \E k \in 1..Len(gathered) : gathered[k].kind = "exc"
       IN  IF raises
           THEN /\ bPc' = "raised"
                /\ UNCHANGED <<all_results, bPos>>
           ELSE /\ all_results' = all_results \o ProcessResults(BatchLo, BatchHi, gathered)
                /\ IF BatchHi < Len(urls)
                   THEN bPc' = "pause" /\ bPos' = bPos
                   ELSE bPc' = "returned" /\ bPos' = bPos
    /\ UNCHANGED <<bOp, urls, outcome, batch_size, bTask, bTaskResult, bDoneOrder, otherThanBatch>>

\* "if i + batch_size < len(urls): await asyncio.sleep(0.5)", then the next
\* iteration of "for i in range(0, len(urls), batch_size)".
BatchPause ==
    /\ bPc = "pause"
    /\ bPc' = "next"
    /\ bPos' = bPos + batch_size
    /\ UNCHANGED <<bOp, urls, outcome, batch_size, bTask, bTaskResult, bDoneOrder, all_results, otherThanBatch>>

\* One iteration of the sequential loop of BongoCat.scrape_multiple:
\* try: results.append(await self.scrape(url)) except Exception as e: append error.
SyncIteration ==
    /\ bPc = "call"
    /\ bOp = "sync_scrape_multiple"
    /\ Len(all_results) < Len(urls)
    /\ LET i == Len(all_results) + 1
           r == Scrape(i)
       IN  /\ all_results' = Append(all_results,
                                IF r.kind = "exc" THEN ErrorResult(i, r) ELSE r)
           /\ bTask' = [bTask EXCEPT ![i] = "done"]
           /\ bTaskResult' = [bTaskResult EXCEPT ![i] = r]
           /\ bPc' = IF i = Len(urls) THEN "returned" ELSE "call"
    /\ UNCHANGED <<bOp, urls, outcome, batch_size, bPos, bDoneOrder, otherThanBatch>>

BatchNext ==
    \/ BatchEmpty
    \/ BatchLaunch
    \/ \E i \in 1..Len(urls) : TaskComplete(i)
    \/ GatherReturn
    \/ BatchPause
    \/ SyncIteration

(***************************************************************************)
(* AsyncSessionManager and the fetches that go through make_request.       *)
(* Rates are kept as fractions num/den; delays are in tenths of a second.  *)
(***************************************************************************)
ManagerKinds == {"sync", "async"}
Fetches == 1..NumFetches
SessionIds == {"default", "aux"}
Statuses == {200, 404, 503}
DispatchCap == 12

EmptyMap == [x \in {} |-> 0]
ZeroRate == [num |-> 0, den |-> 1]
NewStats == [requests_made |-> 0, failures |-> 0]

\* Histories a manager can have behind it when a batch of fetches starts:
\* none, or responses recorded on the default session and a recompute.
PriorHistories == {[requests_made |-> 0, failures |-> 0],
                   [requests_made |-> 4, failures |-> 1]}

RECURSIVE SumOver(_, _, _)
SumOver(f, field, S) ==
    IF S = {} THEN 0
    ELSE LET x == CHOOSE y \in S : TRUE
         IN  f[x][field] + SumOver(f, field, S \ {x})

\* rate < tenths/10, on fractions.
RateBelow(rate, tenths) == 10 * rate.num < tenths * rate.den

\* _calculate_adaptive_retries (the same in both managers)
calculate_adaptive_retries(base, rate) ==
    IF RateBelow(rate, 1) THEN Max(1, base - 1)
    ELSE IF RateBelow(rate, 3) THEN base
    ELSE Min(base + 2, 10)

\* AsyncSessionManager._calculate_adaptive_backoff, in tenths of a second.
calculate_adaptive_backoff(rate) ==
    IF RateBelow(rate, 1) THEN 3
    ELSE IF RateBelow(rate, 3) THEN 5
    ELSE 10

\* SessionManager._calculate_adaptive_backoff, in tenths of a second.
sync_calculate_adaptive_backoff(rate) ==
    IF RateBelow(rate, 1) THEN 5
    ELSE IF RateBelow(rate, 3) THEN 10
    ELSE 20

\* status_forcelist of the Retry that SessionManager._create_session builds.
StatusForced(status) == status \in {429, 500, 502, 503, 504, 408}

\* An aiohttp session carries no retry configuration.
NoRetryConfig == [total |-> 0, backoff_factor |-> 0]

\* AsyncSessionManager._update_global_failure_rate
update_global_failure_rate(stats) ==
    LET total_requests == SumOver(stats, "requests_made", DOMAIN stats)
        total_failures == SumOver(stats, "failures", DOMAIN stats)
    IN  IF total_requests > 0
        THEN [num |-> total_failures, den |-> total_requests]
        ELSE ZeroRate

\* self.session_stats[session_id]: the defaultdict creates the record on first access.
StatsEntry(stats, sid) == IF sid \in DOMAIN stats THEN stats[sid] ELSE NewStats

StatsPut(stats, sid, rec) ==
    [x \in DOMAIN stats \cup {sid} |-> IF x = sid THEN rec ELSE stats[x]]

\* The counters _monitor_response updates for a response of the given status.
monitor_response(stats, sid, status) ==
    LET old == StatsEntry(stats, sid)
    IN  StatsPut(stats, sid,
            [requests_made |-> old.requests_made + 1,
             failures |-> IF status >= 400 THEN old.failures + 1 ELSE old.failures])

\* The counters _monitor_failure updates.
monitor_failure(stats, sid) ==
    LET old == StatsEntry(stats, sid)
    IN  StatsPut(stats, sid, [old EXCEPT !.failures = old.failures + 1])

\* "if session_id not in self.sessions" of get_session.
SessionAlwaysMissing(sid) == TRUE

SessionMissing(sid) == sid \notin DOMAIN sessions

\* asyncio.Semaphore: acquire goes through only while the value is positive.
SemaphoreAlwaysFree(value) == TRUE

SemaphoreFree(value) == value > 0

\* "retries += 1" of the two except branches of make_request.
StuckRetries(r) == r

NextRetries(r) == r + 1

\* "if retries <= adaptive_retries" of the two except branches of make_request.
RetryAllowedStrict(r, adaptive) == r < adaptive

RetryAllowed(r, adaptive) == r <= adaptive

RECURSIVE Pow2(_)
Pow2(n) == IF n <= 0 THEN 1 ELSE 2 * Pow2(n - 1)

Terminal(t) == fPc[t] \in {"succeeded", "failed"}
Admitted(t) == fPc[t] \in {"dispatched", "backoff"}

\* What _create_session / _create_async_session configure on a new handle at
\* the given failure rate.
NewHandleConfig(kind, base, rate) ==
    IF kind = "sync"
    THEN [total |-> calculate_adaptive_retries(base, rate),
          backoff_factor |-> sync_calculate_adaptive_backoff(rate)]
    ELSE NoRetryConfig

\* The engine is the concurrent one (AsyncBongoCat over AsyncSessionManager) or
\* the synchronous one (BongoCat over SessionManager, which has no semaphore
\* and only ever uses the session 'default').  A handle that exists already was
\* constructed while the manager was new, at failure rate 0.
FetchInit ==
    /\ mKind \in ManagerKinds
    /\ max_retries \in 0..MaxBaseRetries
    /\ IF mKind = "async" THEN concurrent_limit \in 1..MaxLimit ELSE concurrent_limit = 0
    /\ semaphore = concurrent_limit
    /\ \E h \in PriorHistories :
          IF h.requests_made = 0
          THEN /\ sessions = EmptyMap
               /\ constructed = <<>>
               /\ connector_cache = {}
               /\ handle_config = <<>>
               /\ session_stats = EmptyMap
               /\ global_failure_rate = ZeroRate
          ELSE /\ sessions = [x \in {"default"} |-> 1]
               /\ constructed = <<"default">>
               /\ connector_cache = IF mKind = "async" THEN {"default"} ELSE {}
               /\ handle_config = <<NewHandleConfig(mKind, max_retries, ZeroRate)>>
               /\ session_stats = [x \in {"default"} |-> h]
               /\ global_failure_rate = [num |-> h.failures, den |-> h.requests_made]
    /\ fPc = [t \in Fetches |-> "pending"]
    /\ fSid \in [Fetches -> SessionIds]
    \* fetches are interchangeable: those on 'default' are numbered first
    /\ \A t, u \in Fetches : t < u /\ fSid[t] = "aux" => fSid[u] = "aux"
    /\ mKind = "sync" => \A t \in Fetches : fSid[t] = "default"
    /\ fHandle = [t \in Fetches |-> 0]
    /\ fRetries = [t \in Fetches |-> 0]
    /\ fAdaptive = [t \in Fetches |-> 0]
    /\ fDispatches = [t \in Fetches |-> 0]
    /\ fWaits = [t \in Fetches |-> 0]
    /\ fBackoff = [t \in Fetches |-> 0]
    /\ fResult = [t \in Fetches |-> NoResult]

\* AsyncBongoCat.scrape is called: it first awaits _async_rate_limit, which runs
\* RateLimiter.wait in an executor thread.  scrape always uses session 'default'.
StartScrape(t) ==
    /\ mKind = "async"
    /\ fPc[t] = "pending"
    /\ fSid[t] = "default"
    /\ fPc' = [fPc EXCEPT ![t] = "rate_limited"]
    /\ UNCHANGED <<otherThanFetch, mgrVars, fSid, fHandle, fRetries, fAdaptive, fDispatches,
                   fWaits, fBackoff, fResult>>

\* RateLimiter.wait returns; _scrape_with_requests calls make_request, which
\* queues on the semaphore.
RateLimitReturn(t) ==
    /\ mKind = "async"
    /\ fPc[t] = "rate_limited"
    /\ fPc' = [fPc EXCEPT ![t] = "queued"]
    /\ fWaits' = [fWaits EXCEPT ![t] = @ + 1]
    /\ UNCHANGED <<otherThanFetch, mgrVars, fSid, fHandle, fRetries, fAdaptive, fDispatches,
                   fBackoff, fResult>>

\* make_concurrent_requests calls make_request directly, with the request's
\* session id (the fetches on a session other than 'default' come this way).
StartRequest(t) ==
    /\ mKind = "async"
    /\ fPc[t] = "pending"
    /\ fSid[t] # "default"
    /\ fPc' = [fPc EXCEPT ![t] = "queued"]
    /\ UNCHANGED <<otherThanFetch, mgrVars, fSid, fHandle, fRetries, fAdaptive, fDispatches,
                   fWaits, fBackoff, fResult>>

\* make_request from "async with self.semaphore" to the first session.request():
\* the slot is taken, get_session returns (and on first use constructs) the
\* handle, retries and adaptive_retries are set.  Nothing in between suspends
\* (_create_async_session awaits nothing), so the event loop runs it as one step.
Acquire(t) ==
    /\ fPc[t] = "queued"
    /\ SemaphoreFree(semaphore)
    /\ semaphore' = semaphore - 1
    /\ LET sid == fSid[t]
           missing == SessionMissing(sid)
           handle == IF missing THEN Len(constructed) + 1 ELSE sessions[sid]
       IN  /\ sessions' = IF missing
                          THEN [x \in DOMAIN sessions \cup {sid} |->
                                   IF x = sid THEN handle ELSE sessions[x]]
                          ELSE sessions
           /\ constructed' = IF missing THEN Append(constructed, sid) ELSE constructed
           /\ connector_cache' = IF missing THEN connector_cache \cup {sid} ELSE connector_cache
           /\ handle_config' = IF missing THEN Append(handle_config, NoRetryConfig)
                                ELSE handle_config
           /\ session_stats' = IF missing
                               THEN StatsPut(session_stats, sid, StatsEntry(session_stats, sid))
                               ELSE session_stats
           /\ fHandle' = [fHandle EXCEPT ![t] = handle]
    /\ fRetries' = [fRetries EXCEPT ![t] = 0]
    /\ fAdaptive' = [fAdaptive EXCEPT ![t] =
                        calculate_adaptive_retries(max_retries, global_failure_rate)]
    /\ fDispatches' = [fDispatches EXCEPT ![t] = 1]
    /\ fPc' = [fPc EXCEPT ![t] = "dispatched"]
    /\ UNCHANGED <<otherThanFetch, max_retries, concurrent_limit, global_failure_rate, fSid, fWaits,
                   fBackoff, fResult>>

\* The transport answers with an HTTP response of any status: _monitor_response
\* records it (and recomputes the global rate when 30 s have passed since the
\* last recompute), make_request returns the response data and the slot, and
\* the caller builds the success result.  The locals of make_request end with
\* the call.
Respond(t, status, periodic) ==
    /\ mKind = "async"
    /\ fPc[t] = "dispatched"
    /\ LET stats == monitor_response(session_stats, fSid[t], status)
       IN  /\ session_stats' = stats
           /\ global_failure_rate' = IF periodic
                                     THEN update_global_failure_rate(stats)
                                     ELSE global_failure_rate
    /\ semaphore' = semaphore + 1
    /\ fPc' = [fPc EXCEPT ![t] = "succeeded"]
    /\ fResult' = [fResult EXCEPT ![t] = [kind |-> "success", status_code |-> status]]
    /\ fRetries' = [fRetries EXCEPT ![t] = 0]
    /\ fAdaptive' = [fAdaptive EXCEPT ![t] = 0]
    /\ fBackoff' = [fBackoff EXCEPT ![t] = 0]
    /\ fDispatches' = [fDispatches EXCEPT ![t] = 0]
    /\ UNCHANGED <<otherThanFetch, max_retries, concurrent_limit, sessions, constructed,
                   connector_cache, handle_config, fSid, fHandle, fWaits>>

\* The attempt raises: asyncio.TimeoutError (kind "timeout") or any other
\* exception (kind "error").  Either the fetch goes to sleep for its backoff, or
\* the retries are exhausted and the exception leaves make_request, after
\* _monitor_failure in the "error" branch only; the slot is given back by the
\* "async with" on the way out.  The locals of make_request end with the call;
\* the failure keeps the number of attempts that were made.
AttemptFails(t, kind) ==
    /\ mKind = "async"
    /\ fPc[t] = "dispatched"
    /\ LET r == NextRetries(fRetries[t])
       IN  IF RetryAllowed(r, fAdaptive[t])
           THEN /\ fPc' = [fPc EXCEPT ![t] = "backoff"]
                /\ fRetries' = [fRetries EXCEPT ![t] = r]
                /\ fBackoff' = [fBackoff EXCEPT ![t] =
                                   Pow2(r) * calculate_adaptive_backoff(global_failure_rate)]
                /\ UNCHANGED <<semaphore, session_stats, global_failure_rate, fResult, fAdaptive,
                               fDispatches>>
           ELSE /\ fPc' = [fPc EXCEPT ![t] = "failed"]
                /\ fResult' = [fResult EXCEPT ![t] =
                        [kind |-> "failure", error |-> kind, status_code |-> 0,
                         attempts |-> fDispatches[t]]]
                /\ fDispatches' = [fDispatches EXCEPT ![t] = 0]
                /\ semaphore' = semaphore + 1
                /\ IF kind = "error"
                   THEN LET stats == monitor_failure(session_stats, fSid[t])
                        IN  /\ session_stats' = stats
                            /\ global_failure_rate' = update_global_failure_rate(stats)
                   ELSE UNCHANGED <<session_stats, global_failure_rate>>
                /\ fRetries' = [fRetries EXCEPT ![t] = 0]
                /\ fAdaptive' = [fAdaptive EXCEPT ![t] = 0]
                /\ fBackoff' = [fBackoff EXCEPT ![t] = 0]
    /\ UNCHANGED <<otherThanFetch, max_retries, concurrent_limit, sessions, constructed,
                   connector_cache, handle_config, fSid, fHandle, fWaits>>

\* The backoff sleep ends and the loop dispatches the next attempt (the loop of
\* make_request, or the one of urllib3 under session.get).
BackoffDone(t) ==
    /\ fPc[t] = "backoff"
    /\ fPc' = [fPc EXCEPT ![t] = "dispatched"]
    /\ fDispatches' = [fDispatches EXCEPT ![t] = Min(@ + 1, DispatchCap)]
    /\ UNCHANGED <<otherThanFetch, mgrVars, fSid, fHandle, fRetries, fAdaptive, fWaits,
                   fBackoff, fResult>>

\* BongoCat.scrape / scrape_sync is called and blocks in RateLimiter.wait().
\* The synchronous engine runs one fetch at a time.
SyncStartScrape(t) ==
    /\ mKind = "sync"
    /\ fPc[t] = "pending"
    /\ \A u \in Fetches : u < t => Terminal(u)
    /\ fPc' = [fPc EXCEPT ![t] = "rate_limited"]
    /\ UNCHANGED <<otherThanFetch, mgrVars, fSid, fHandle, fRetries, fAdaptive, fDispatches,
                   fWaits, fBackoff, fResult>>

\* RateLimiter.wait() returns; _scrape_with_requests gets the session (and on
\* first use constructs it, with the Retry derived from the failure rate of
\* that moment) and calls session.get: the first attempt is on the wire.
SyncDispatch(t) ==
    /\ mKind = "sync"
    /\ fPc[t] = "rate_limited"
    /\ fWaits' = [fWaits EXCEPT ![t] = @ + 1]
    /\ LET sid == fSid[t]
           missing == SessionMissing(sid)
           handle == IF missing THEN Len(constructed) + 1 ELSE sessions[sid]
           config == NewHandleConfig("sync", max_retries, global_failure_rate)
       IN  /\ sessions' = IF missing
                          THEN [x \in DOMAIN sessions \cup {sid} |->
                                   IF x = sid THEN handle ELSE sessions[x]]
                          ELSE sessions
           /\ constructed' = IF missing THEN Append(constructed, sid) ELSE constructed
           /\ handle_config' = IF missing THEN Append(handle_config, config)
                                ELSE handle_config
           /\ session_stats' = IF missing
                               THEN StatsPut(session_stats, sid, StatsEntry(session_stats, sid))
                               ELSE session_stats
           /\ fHandle' = [fHandle EXCEPT ![t] = handle]
           /\ fAdaptive' = [fAdaptive EXCEPT ![t] = handle_config'[handle].total]
    /\ fRetries' = [fRetries EXCEPT ![t] = 0]
    /\ fDispatches' = [fDispatches EXCEPT ![t] = 1]
    /\ fPc' = [fPc EXCEPT ![t] = "dispatched"]
    /\ UNCHANGED <<otherThanFetch, max_retries, concurrent_limit, semaphore, connector_cache,
                   global_failure_rate, fSid, fBackoff, fResult>>

\* session.get returns a response (a status urllib3 does not retry): the
\* response hook _monitor_response records it (and recomputes the global rate
\* when 60 s have passed since the last recompute); raise_for_status turns a
\* status of 400 or more into an exception, which scrape reports as an error.
SyncRespond(t, status, periodic) ==
    /\ mKind = "sync"
    /\ fPc[t] = "dispatched"
    /\ ~StatusForced(status)
    /\ LET stats == monitor_response(session_stats, fSid[t], status)
       IN  /\ session_stats' = stats
           /\ global_failure_rate' = IF periodic
                                     THEN update_global_failure_rate(stats)
                                     ELSE global_failure_rate
    /\ IF status >= 400
       THEN /\ fPc' = [fPc EXCEPT ![t] = "failed"]
            /\ fResult' = [fResult EXCEPT ![t] =
                    [kind |-> "failure", error |-> "http", status_code |-> status,
                     attempts |-> fDispatches[t]]]
       ELSE /\ fPc' = [fPc EXCEPT ![t] = "succeeded"]
            /\ fResult' = [fResult EXCEPT ![t] = [kind |-> "success", status_code |-> status]]
    /\ fRetries' = [fRetries EXCEPT ![t] = 0]
    /\ fAdaptive' = [fAdaptive EXCEPT ![t] = 0]
    /\ fBackoff' = [fBackoff EXCEPT ![t] = 0]
    /\ fDispatches' = [fDispatches EXCEPT ![t] = 0]
    /\ UNCHANGED <<otherThanFetch, max_retries, concurrent_limit, semaphore, sessions,
                   constructed, connector_cache, handle_config, fSid, fHandle, fWaits>>

\* The attempt times out, fails in the transport, or is answered with a status
\* of the Retry's status_forcelist (cause "http"): urllib3 retries while the Retry of the
\* handle is not exhausted, sleeping backoff_factor * 2^(n-1) before the n-th
\* retry (nothing before the first); once exhausted the exception leaves
\* session.get, no hook runs, and scrape reports the error.  The message of an
\* HTTP error names the status.
SyncAttemptFails(t, cause, status) ==
    /\ mKind = "sync"
    /\ fPc[t] = "dispatched"
    /\ IF cause = "http" THEN StatusForced(status) ELSE status = 0
    /\ LET r == NextRetries(fRetries[t])
       IN  IF RetryAllowed(r, fAdaptive[t])
           THEN /\ fPc' = [fPc EXCEPT ![t] = "backoff"]
                /\ fRetries' = [fRetries EXCEPT ![t] = r]
                /\ fBackoff' = [fBackoff EXCEPT ![t] =
                       IF r <= 1 THEN 0
                       ELSE Pow2(r - 1) * handle_config[fHandle[t]].backoff_factor]
                /\ UNCHANGED <<fResult, fAdaptive, fDispatches>>
           ELSE /\ fPc' = [fPc EXCEPT ![t] = "failed"]
                /\ fResult' = [fResult EXCEPT ![t] =
                        [kind |-> "failure",
                         error |-> cause, status_code |-> status,
                         attempts |-> fDispatches[t]]]
                /\ fDispatches' = [fDispatches EXCEPT ![t] = 0]
                /\ fRetries' = [fRetries EXCEPT ![t] = 0]
                /\ fAdaptive' = [fAdaptive EXCEPT ![t] = 0]
                /\ fBackoff' = [fBackoff EXCEPT ![t] = 0]
    /\ UNCHANGED <<otherThanFetch, mgrVars, fSid, fHandle, fWaits>>

FetchNext ==
    \/ \E t \in Fetches : StartScrape(t)
    \/ \E t \in Fetches : RateLimitReturn(t)
    \/ \E t \in Fetches : StartRequest(t)
    \/ \E t \in Fetches : Acquire(t)
    \/ \E t \in Fetches, status \in Statuses, periodic \in BOOLEAN : Respond(t, status, periodic)
    \/ \E t \in Fetches, kind \in {"timeout", "error"} : AttemptFails(t, kind)
    \/ \E t \in Fetches : BackoffDone(t)
    \/ \E t \in Fetches : SyncStartScrape(t)
    \/ \E t \in Fetches : SyncDispatch(t)
    \/ \E t \in Fetches, status \in Statuses, periodic \in BOOLEAN :
          SyncRespond(t, status, periodic)
    \/ \E t \in Fetches, cause \in {"timeout", "error", "http"}, status \in Statuses \cup {0} :
          SyncAttemptFails(t, cause, status)

\* The concurrent engine on a manager with a longer past: one response of the
\* first one to three on 'default' was a failure (status >= 400) and the
\* global failure rate was recomputed then; the responses recorded since, all
\* successes, came within the 30 s in which _monitor_response does not
\* recompute it.
StaleHistories ==
    {[requests_made |-> r, failures |-> 1, rate |-> [num |-> 1, den |-> r0]] :
        r0 \in 1..3, r \in 4..MaxPriorRequests}

RetryInit ==
    /\ mKind = "async"
    /\ max_retries \in 0..MaxBaseRetries
    /\ concurrent_limit \in 1..MaxLimit
    /\ semaphore = concurrent_limit
    /\ \E h \in StaleHistories :
          /\ session_stats = [x \in {"default"} |->
                                 [requests_made |-> h.requests_made, failures |-> h.failures]]
          /\ global_failure_rate = h.rate
    /\ sessions = [x \in {"default"} |-> 1]
    /\ constructed = <<"default">>
    /\ connector_cache = {"default"}
    /\ handle_config = <<NoRetryConfig>>
    /\ fPc = [t \in Fetches |-> "pending"]
    /\ fSid = [t \in Fetches |-> "default"]
    /\ fHandle = [t \in Fetches |-> 0]
    /\ fRetries = [t \in Fetches |-> 0]
    /\ fAdaptive = [t \in Fetches |-> 0]
    /\ fDispatches = [t \in Fetches |-> 0]
    /\ fWaits = [t \in Fetches |-> 0]
    /\ fBackoff = [t \in Fetches |-> 0]
    /\ fResult = [t \in Fetches |-> NoResult]

RetryNext ==
    \/ \E t \in Fetches : StartScrape(t)
    \/ \E t \in Fetches : RateLimitReturn(t)
    \/ \E t \in Fetches : Acquire(t)
    \/ \E t \in Fetches, status \in Statuses, periodic \in BOOLEAN : Respond(t, status, periodic)
    \/ \E t \in Fetches, kind \in {"timeout", "error"} : AttemptFails(t, kind)
    \/ \E t \in Fetches : BackoffDone(t)

\* The single-URL fetches: scrape of either engine, which always goes through
\* the session 'default'.
ScrapeInit ==
    /\ FetchInit
    /\ \A t \in Fetches : fSid[t] = "default"

ScrapeNext ==
    \/ \E t \in Fetches : StartScrape(t)
    \/ \E t \in Fetches : RateLimitReturn(t)
    \/ \E t \in Fetches : Acquire(t)
    \/ \E t \in Fetches, status \in Statuses, periodic \in BOOLEAN : Respond(t, status, periodic)
    \/ \E t \in Fetches, kind \in {"timeout", "error"} : AttemptFails(t, kind)
    \/ \E t \in Fetches : BackoffDone(t)
    \/ \E t \in Fetches : SyncStartScrape(t)
    \/ \E t \in Fetches : SyncDispatch(t)
    \/ \E t \in Fetches, status \in Statuses, periodic \in BOOLEAN :
          SyncRespond(t, status, periodic)
    \/ \E t \in Fetches, cause \in {"timeout", "error", "http"}, status \in Statuses \cup {0} :
          SyncAttemptFails(t, cause, status)

(***************************************************************************)
(* RateLimiter.  Time is counted in ticks of a quarter second, so the      *)
(* burst window of 1.0 s is 4 ticks and the burst penalty of 0.5 s is 2.   *)
(* time.sleep(d) returns after at least d; the clock starts far from 0,    *)
(* as time.time() does.                                                    *)
(***************************************************************************)
Threads == 1..NumThreads
WindowTicks == 4
PenaltyTicks == 2

\* "with self.lock": a thread enters only while no other thread holds the lock.
LockFree(owner) == owner = 0

\* The fixed-mode branch of wait(): the time to sleep before the request.
NoBaseSleep(current_time, last, interval) == 0

BaseSleep(current_time, last, interval) ==
    LET time_since_last == current_time - last
    IN  IF time_since_last < interval THEN interval - time_since_last ELSE 0

\* The while loop of _update_burst_tracking: entries one second old or older
\* are dropped from the front.
RECURSIVE TrimOld(_, _)
TrimOld(times, current_time) ==
    IF times # <<>> /\ current_time - Head(times) >= WindowTicks
    THEN TrimOld(Tail(times), current_time)
    ELSE times

\* deque(maxlen=n).append: a full deque drops its oldest entry.
DequeAppend(times, x, maxlen) ==
    IF Len(times) >= maxlen THEN Append(Tail(times), x) ELSE Append(times, x)

\* "if len(self.request_times) >= self.burst_limit"
BurstOnlyAbove(count, limit) == count > limit

BurstReached(count, limit) == count >= limit

InWait(th) == rPc[th] # "idle"

LimiterInit ==
    /\ now = 1000
    /\ min_interval \in 0..MaxInterval
    /\ burst_limit \in 1..MaxBurst
    /\ last_request_time = 0
    /\ request_times = <<>>
    /\ lock = 0
    /\ adaptive_mode \in BOOLEAN
    /\ current_delay = min_interval
    /\ rPc = [th \in Threads |-> "idle"]
    /\ rWake = [th \in Threads |-> 0]
    /\ rReturns = <<>>
    /\ rPenalties = 0

\* time passes
Tick ==
    /\ now < 1000 + MaxTime
    /\ now' = now + 1
    /\ UNCHANGED <<min_interval, burst_limit, last_request_time, request_times, lock,
                   adaptive_mode, current_delay, rPc, rWake, rReturns, rPenalties,
                   otherThanLimiter>>

\* wait(): the thread takes the lock, reads the time and goes to sleep for
\* current_delay (adaptive mode) or for what is left of min_interval.
WaitEnter(th) ==
    /\ rPc[th] = "idle"
    /\ Len(rReturns) + Cardinality({x \in Threads : InWait(x)}) < MaxWaits
    /\ LockFree(lock)
    /\ lock' = th
    /\ rPc' = [rPc EXCEPT ![th] = "base_sleep"]
    /\ rWake' = [rWake EXCEPT ![th] =
                    now + (IF adaptive_mode THEN current_delay
                           ELSE BaseSleep(now, last_request_time, min_interval))]
    /\ UNCHANGED <<now, min_interval, burst_limit, last_request_time, request_times,
                   adaptive_mode, current_delay, rReturns, rPenalties, otherThanLimiter>>

\* The sleep is over; _update_burst_tracking trims the window, records the
\* request and, with burst_limit or more entries left, starts the 0.5 s penalty.
WaitBurst(th) ==
    /\ rPc[th] = "base_sleep"
    /\ now >= rWake[th]
    /\ LET times == DequeAppend(TrimOld(request_times, now), now, 2 * burst_limit)
       IN  /\ request_times' = times
           /\ IF BurstReached(Len(times), burst_limit)
              THEN /\ rPc' = [rPc EXCEPT ![th] = "penalty_sleep"]
                   /\ rWake' = [rWake EXCEPT ![th] = now + PenaltyTicks]
                   /\ rPenalties' = rPenalties + 1
              ELSE /\ rPc' = [rPc EXCEPT ![th] = "finishing"]
                   /\ rWake' = [rWake EXCEPT ![th] = now]
                   /\ UNCHANGED rPenalties
    /\ UNCHANGED <<now, min_interval, burst_limit, last_request_time, lock,
                   adaptive_mode, current_delay, rReturns, otherThanLimiter>>

\* "self.last_request_time = time.time()", the lock is released, wait() returns.
WaitReturn(th) ==
    /\ rPc[th] \in {"penalty_sleep", "finishing"}
    /\ now >= rWake[th]
    /\ last_request_time' = now
    /\ lock' = 0
    /\ rPc' = [rPc EXCEPT ![th] = "idle"]
    /\ rReturns' = Append(rReturns, now)
    /\ UNCHANGED <<now, min_interval, burst_limit, request_times, adaptive_mode,
                   current_delay, rWake, rPenalties, otherThanLimiter>>

LimiterNext ==
    \/ Tick
    \/ \E th \in Threads : WaitEnter(th)
    \/ \E th \in Threads : WaitBurst(th)
    \/ \E th \in Threads : WaitReturn(th)

(***************************************************************************)
(* ProxyHandler (proxy_handler.py).  Time is counted in ticks of 100 s; a  *)
(* validation pass probes every entry of proxy_list, and each probe        *)
(* succeeds or fails as the network decides.                               *)
(***************************************************************************)
ProxyNames == 1..NumProxies
\* self.validation_interval = 300 (seconds), in ticks.
ValidationInterval == 3
\* The value of time.time() when the handler is constructed.
ProxyEpoch == 1000

InList(x, list) == \E i \in 1..Len(list) : list[i] = x

\* The entries of list whose probe came out as want, in list order.
RECURSIVE Probed(_, _, _)
Probed(list, probe, want) ==
    IF list = <<>> THEN <<>>
    ELSE LET n == Len(list)
             init == Probed(SubSeq(list, 1, n - 1), probe, want)
         IN  IF probe[n] = want THEN Append(init, list[n]) ELSE init

\* list.remove(x): drops the first occurrence of x.
RECURSIVE ListRemove(_, _)
ListRemove(list, x) ==
    IF list = <<>> THEN <<>>
    ELSE IF Head(list) = x THEN Tail(list)
    ELSE <<Head(list)>> \o ListRemove(Tail(list), x)

ProbeOutcomes(list) == [1..Len(list) -> BOOLEAN]

\* The interval test of get_proxy.
ValidationDue(current_time, last) == current_time - last > ValidationInterval

NoAnswer == [kind |-> "none yet", proxy |-> 0]

ProxyInit ==
    /\ pClock = ProxyEpoch
    /\ proxy_list \in SeqsUpTo(ProxyNames, MaxPool)
    /\ IF proxy_list # <<>>
       THEN \E probe \in ProbeOutcomes(proxy_list) :
               /\ working_proxies = Probed(proxy_list, probe, TRUE)
               /\ failed_proxies = Probed(proxy_list, probe, FALSE)
               /\ last_validation = pClock
       ELSE /\ working_proxies = <<>>
            /\ failed_proxies = <<>>
            /\ last_validation = 0
    /\ pOp = "__init__"
    /\ pResult = NoAnswer

\* _validate_proxies: both partitions are rebuilt from the probes.
validate_proxies(probe) ==
    /\ working_proxies' = Probed(proxy_list, probe, TRUE)
    /\ failed_proxies' = Probed(proxy_list, probe, FALSE)
    /\ last_validation' = pClock

add_proxy(proxy) ==
    /\ proxy_list' = IF InList(proxy, proxy_list) THEN proxy_list
                     ELSE Append(proxy_list, proxy)
    /\ pOp' = "add_proxy"
    /\ UNCHANGED <<otherThanProxy, working_proxies, failed_proxies, last_validation,
                   pClock, pResult>>

\* get_proxy with an empty working list: None, before anything else is looked at.
GetProxyNone ==
    /\ working_proxies = <<>>
    /\ pResult' = [kind |-> "None", proxy |-> 0]
    /\ pOp' = "get_proxy"
    /\ UNCHANGED <<otherThanProxy, proxy_list, working_proxies, failed_proxies,
                   last_validation, pClock>>

\* get_proxy with a working proxy and no validation due: random.choice.
GetProxyChoice ==
    /\ working_proxies # <<>>
    /\ ~ValidationDue(pClock, last_validation)
    /\ \E i \in 1..Len(working_proxies) :
          pResult' = [kind |-> "proxy", proxy |-> working_proxies[i]]
    /\ pOp' = "get_proxy"
    /\ UNCHANGED <<otherThanProxy, proxy_list, working_proxies, failed_proxies,
                   last_validation, pClock>>

\* get_proxy with a working proxy and the interval elapsed: the validation pass
\* runs first; random.choice then draws from the rebuilt list and raises
\* IndexError on an empty one.
GetProxyRevalidate ==
    /\ working_proxies # <<>>
    /\ ValidationDue(pClock, last_validation)
    /\ \E probe \in ProbeOutcomes(proxy_list) :
          /\ validate_proxies(probe)
          /\ IF working_proxies' = <<>>
             THEN pResult' = [kind |-> "IndexError", proxy |-> 0]
             ELSE \E i \in 1..Len(working_proxies') :
                     pResult' = [kind |-> "proxy", proxy |-> working_proxies'[i]]
    /\ pOp' = "get_proxy"
    /\ UNCHANGED <<otherThanProxy, proxy_list, pClock>>

remove_proxy(proxy) ==
    /\ proxy_list' = ListRemove(proxy_list, proxy)
    /\ working_proxies' = ListRemove(working_proxies, proxy)
    /\ failed_proxies' = ListRemove(failed_proxies, proxy)
    /\ pOp' = "remove_proxy"
    /\ UNCHANGED <<otherThanProxy, last_validation, pClock, pResult>>

force_validation ==
    /\ \E probe \in ProbeOutcomes(proxy_list) : validate_proxies(probe)
    /\ pOp' = "force_validation"
    /\ UNCHANGED <<otherThanProxy, proxy_list, pClock, pResult>>

\* 100 s pass.
ProxyTick ==
    /\ pClock < ProxyEpoch + MaxProxyTime
    /\ pClock' = pClock + 1
    /\ UNCHANGED <<otherThanProxy, proxy_list, working_proxies, failed_proxies,
                   last_validation, pOp, pResult>>

ProxyNext ==
    \/ \E p \in ProxyNames : add_proxy(p)
    \/ GetProxyNone
    \/ GetProxyChoice
    \/ GetProxyRevalidate
    \/ \E p \in ProxyNames : remove_proxy(p)
    \/ force_validation
    \/ ProxyTick

(***************************************************************************)
(* The life cycle of a connection manager: get_session, close_session and  *)
(* close_all of SessionManager (session_manager.py) and of                 *)
(* AsyncSessionManager (async_session_manager.py).  Closing a handle or a  *)
(* connector succeeds or raises, as the transport decides.  The methods of *)
(* SessionManager run to their end in one step; close_all of               *)
(* AsyncSessionManager is suspended at each await, and get_session may run *)
(* in another task meanwhile.  close_session is called only while no       *)
(* close_all is suspended.                                                 *)
(***************************************************************************)
\* The keys of a dict in the order a loop over it visits them (insertion
\* order): the handles are numbered in the order they were inserted.
RECURSIVE InsertionOrder(_)
InsertionOrder(d) ==
    IF DOMAIN d = {} THEN <<>>
    ELSE LET last == CHOOSE x \in DOMAIN d : \A y \in DOMAIN d : d[y] <= d[x]
         IN  Append(InsertionOrder([y \in DOMAIN d \ {last} |-> d[y]]), last)

DictRemove(d, key) == [x \in DOMAIN d \ {key} |-> d[x]]

CloseAllSuspended == cPc \in {"sessions", "connectors"}

ManagerInit ==
    /\ mKind \in ManagerKinds
    /\ closedHandles = {}
    /\ cPc = "idle"
    /\ cSeen = 0
    /\ cSize = 0
    /\ cCalls = 0
    /\ mOp = "__init__"
    /\ mRaised = "none"

\* get_session for an id that has no handle: the handle is constructed and its
\* stats record is created (AsyncSessionManager also caches the connector).
\* For an id that has a handle, get_session changes nothing.
GetSession(sid) ==
    /\ SessionMissing(sid)
    /\ Len(constructed) < MaxHandles
    /\ sessions' = [x \in DOMAIN sessions \cup {sid} |->
                       IF x = sid THEN Len(constructed) + 1 ELSE sessions[x]]
    /\ constructed' = Append(constructed, sid)
    /\ connector_cache' = IF mKind = "async" THEN connector_cache \cup {sid}
                          ELSE connector_cache
    /\ handle_config' = Append(handle_config,
                                NewHandleConfig(mKind, max_retries, global_failure_rate))
    /\ session_stats' = StatsPut(session_stats, sid, StatsEntry(session_stats, sid))
    /\ mOp' = "get_session"
    /\ mRaised' = "none"
    /\ UNCHANGED <<otherThanManager, max_retries, concurrent_limit, semaphore,
                   global_failure_rate, mKind, closedHandles, cPc, cSeen, cSize, cCalls>>

\* SessionManager.close_session for an id that has a handle: close() and del;
\* an exception of close() leaves the entry in place.
SyncCloseSession(sid, raises) ==
    /\ mKind = "sync"
    /\ sid \in DOMAIN sessions
    /\ closedHandles' = closedHandles \cup {sessions[sid]}
    /\ sessions' = IF raises THEN sessions ELSE DictRemove(sessions, sid)
    /\ mOp' = "close_session"
    /\ mRaised' = IF raises THEN "close failed" ELSE "none"
    /\ UNCHANGED <<otherThanManager, max_retries, concurrent_limit, semaphore, constructed,
                   connector_cache, handle_config, session_stats, global_failure_rate, mKind, cPc, cSeen,
                   cSize, cCalls>>

\* AsyncSessionManager.close_session for an id that has a handle: the session is
\* closed and deleted, then its cached connector.  An exception of either
\* close() ends the call where it is raised.
AsyncCloseSession(sid, raising) ==
    /\ mKind = "async"
    /\ ~CloseAllSuspended
    /\ sid \in DOMAIN sessions
    /\ raising = "connector" => sid \in connector_cache
    /\ closedHandles' = closedHandles \cup {sessions[sid]}
    /\ sessions' = IF raising = "session" THEN sessions ELSE DictRemove(sessions, sid)
    /\ connector_cache' = IF raising = "nothing" THEN connector_cache \ {sid}
                          ELSE connector_cache
    /\ mOp' = "close_session"
    /\ mRaised' = IF raising = "nothing" THEN "none" ELSE "close failed"
    /\ UNCHANGED <<otherThanManager, max_retries, concurrent_limit, semaphore, constructed,
                   handle_config, session_stats, global_failure_rate, mKind, cPc, cSeen, cSize, cCalls>>

\* SessionManager.close_all: close() on every handle in turn, then clear().  The
\* first close() that raises (the k-th; k = 0: none does) ends the call with
\* that exception, before clear().
SyncCloseAll(k) ==
    /\ mKind = "sync"
    /\ cCalls < MaxCloseCalls
    /\ LET order == InsertionOrder(sessions)
           visited == IF k = 0 THEN Len(order) ELSE k
       IN  /\ k <= Len(order)
           /\ closedHandles' = closedHandles \cup {sessions[order[i]] : i \in 1..visited}
    /\ sessions' = IF k = 0 THEN EmptyMap ELSE sessions
    /\ cPc' = IF k = 0 THEN "returned" ELSE "raised"
    /\ mRaised' = IF k = 0 THEN "none" ELSE "close failed"
    /\ cCalls' = cCalls + 1
    /\ mOp' = "close_all"
    /\ UNCHANGED <<otherThanManager, max_retries, concurrent_limit, semaphore, constructed,
                   connector_cache, handle_config, session_stats, global_failure_rate, mKind, cSeen, cSize>>

\* AsyncSessionManager.close_all reaches its two clear() calls and returns.
CloseAllFinish ==
    /\ sessions' = EmptyMap
    /\ connector_cache' = {}
    /\ cPc' = "returned"
    /\ cSeen' = 0
    /\ cSize' = 0
    /\ cCalls' = cCalls + 1
    /\ mRaised' = "none"
    /\ UNCHANGED closedHandles

\* A loop of close_all asks its dict iterator for the next entry after the
\* dict has changed size: RuntimeError, outside the try blocks.
CloseAllChangedSize ==
    /\ cPc' = "raised"
    /\ cSeen' = 0
    /\ cSize' = 0
    /\ cCalls' = cCalls + 1
    /\ mRaised' = "RuntimeError"
    /\ UNCHANGED <<sessions, connector_cache, closedHandles>>

\* The loop over the sessions calls close() on its k-th entry and awaits it;
\* what close() raises is swallowed.
VisitSession(k) ==
    /\ closedHandles' = closedHandles \cup {sessions[InsertionOrder(sessions)[k]]}
    /\ cPc' = "sessions"
    /\ cSeen' = k
    /\ UNCHANGED <<sessions, connector_cache, cCalls, mRaised>>

\* The loop over the sessions is over; the loop over the connectors begins.
EnterConnectors ==
    IF connector_cache = {}
    THEN CloseAllFinish
    ELSE /\ cPc' = "connectors"
         /\ cSeen' = 1
         /\ cSize' = Cardinality(connector_cache)
         /\ UNCHANGED <<sessions, connector_cache, closedHandles, cCalls, mRaised>>

\* AsyncSessionManager.close_all is called and runs to its first await.
AsyncCloseAllCall ==
    /\ mKind = "async"
    /\ ~CloseAllSuspended
    /\ cCalls < MaxCloseCalls
    /\ IF DOMAIN sessions # {}
       THEN VisitSession(1) /\ cSize' = Cardinality(DOMAIN sessions)
       ELSE EnterConnectors
    /\ mOp' = "close_all"
    /\ UNCHANGED <<otherThanManager, max_retries, concurrent_limit, semaphore, constructed,
                   handle_config, session_stats, global_failure_rate, mKind>>

\* The awaited session.close() is over: the loop over the sessions goes on.
AsyncCloseAllResume ==
    /\ cPc = "sessions"
    /\ IF Cardinality(DOMAIN sessions) # cSize
       THEN CloseAllChangedSize
       ELSE IF cSeen < cSize
            THEN VisitSession(cSeen + 1) /\ UNCHANGED cSize
            ELSE EnterConnectors
    /\ mOp' = "close_all"
    /\ UNCHANGED <<otherThanManager, max_retries, concurrent_limit, semaphore, constructed,
                   handle_config, session_stats, global_failure_rate, mKind>>

\* The awaited connector.close() is over: the loop over the connectors goes on.
AsyncCloseConnectorsResume ==
    /\ cPc = "connectors"
    /\ IF Cardinality(connector_cache) # cSize
       THEN CloseAllChangedSize
       ELSE IF cSeen < cSize
            THEN /\ cSeen' = cSeen + 1
                 /\ UNCHANGED <<sessions, connector_cache, closedHandles, cPc, cSize, cCalls,
                                mRaised>>
            ELSE CloseAllFinish
    /\ mOp' = "close_all"
    /\ UNCHANGED <<otherThanManager, max_retries, concurrent_limit, semaphore, constructed,
                   handle_config, session_stats, global_failure_rate, mKind>>

ManagerNext ==
    \/ \E sid \in SessionIds : GetSession(sid)
    \/ \E sid \in SessionIds, raises \in BOOLEAN : SyncCloseSession(sid, raises)
    \/ \E sid \in SessionIds, raising \in {"nothing", "session", "connector"} :
          AsyncCloseSession(sid, raising)
    \/ \E k \in 0..MaxHandles : SyncCloseAll(k)
    \/ AsyncCloseAllCall
    \/ AsyncCloseAllResume
    \/ AsyncCloseConnectorsResume

(***************************************************************************)
(* The specifications: one per component, the others frozen.               *)
(***************************************************************************)
(***************************************************************************)
(* The adaptive tuning of the managers: _calculate_adaptive_retries and    *)
(* _calculate_adaptive_backoff read self.max_retries and                   *)
(* self.global_failure_rate and nothing else.  They are applied here to a  *)
(* base and to two failure rates f1 <= f2, for both managers.              *)
(***************************************************************************)
\* failure rates in steps of 0.05, which hit the thresholds 0.1 and 0.3
TuneRates == {[num |-> n, den |-> 20] : n \in 0..MaxRateNum}

RateLeq(f1, f2) == f1.num * f2.den <= f2.num * f1.den

\* a backoff whose highest tier is not the largest
backoff_low_high_tier(kind, rate) ==
    IF RateBelow(rate, 1) THEN 5
    ELSE IF RateBelow(rate, 3) THEN 10
    ELSE 3

\* self._calculate_adaptive_backoff() of the manager of that kind, in tenths
\* of a second
adaptive_backoff(kind, rate) ==
    IF kind = "sync" THEN sync_calculate_adaptive_backoff(rate)
    ELSE calculate_adaptive_backoff(rate)

\* "backoff = (2 ** retries) * self._calculate_adaptive_backoff()"
retry_delay(kind, attempt, rate) == Pow2(attempt) * adaptive_backoff(kind, rate)

TuningInit ==
    /\ tBase \in 0..MaxTuneBase
    /\ tRates \in {p \in TuneRates \X TuneRates : RateLeq(p[1], p[2])}
    /\ tAttempt \in 0..MaxAttempt
    /\ tRetries = EmptyMap
    /\ tBackoff = EmptyMap

\* a manager with max_retries = tBase and global_failure_rate = tRates[i]
\* computes its retry count
CalculateRetries(i) ==
    /\ i \notin DOMAIN tRetries
    /\ tRetries' = tRetries @@ (i :> calculate_adaptive_retries(tBase, tRates[i]))
    /\ UNCHANGED <<tBase, tRates, tAttempt, tBackoff, otherThanTuning>>

\* a manager of that kind with global_failure_rate = tRates[i] computes its
\* backoff factor and the delay before the retry number tAttempt
CalculateBackoff(kind, i) ==
    /\ <<kind, i>> \notin DOMAIN tBackoff
    /\ tBackoff' = tBackoff @@
           (<<kind, i>> :> [factor |-> adaptive_backoff(kind, tRates[i]),
                            delay |-> retry_delay(kind, tAttempt, tRates[i])])
    /\ UNCHANGED <<tBase, tRates, tAttempt, tRetries, otherThanTuning>>

TuningNext ==
    \/ \E i \in 1..2 : CalculateRetries(i)
    \/ \E kind \in ManagerKinds, i \in 1..2 : CalculateBackoff(kind, i)

(***************************************************************************)
(* The adaptive mode of the RateLimiter.  report_success and report_failure *)
(* take no lock: each load and each store of an attribute is a step of its  *)
(* own, and the steps of concurrent callers interleave.  In this part the   *)
(* delays min_interval and current_delay are fractions of a second,         *)
(* [num, den] in lowest terms.                                              *)
(***************************************************************************)
Reporters == 1..NumReporters

RECURSIVE GCD(_, _)
GCD(a, b) == IF b = 0 THEN a ELSE GCD(b, a % b)

Frac(n, d) == LET g == GCD(n, d) IN [num |-> n \div g, den |-> d \div g]

FracMul(x, y) == Frac(x.num * y.num, x.den * y.den)

FracLeq(x, y) == x.num * y.den <= y.num * x.den

FracMin(x, y) == IF FracLeq(x, y) THEN x ELSE y

FracMax(x, y) == IF FracLeq(x, y) THEN y ELSE x

\* values of requests_per_second: none, one request in 40 s, in 10 s, 1/s, 2/s
RateChoices == {Frac(0, 1), Frac(1, 40), Frac(1, 10), Frac(1, 1), Frac(2, 1)}

\* "1.0 / requests_per_second if requests_per_second > 0 else 0"
IntervalOf(rate) == IF rate.num > 0 THEN Frac(rate.den, rate.num) ELSE Frac(0, 1)

\* "min(self.current_delay, 30.0)"
DelayCap(delay) == FracMin(delay, Frac(30, 1))

\* the factor report_failure multiplies current_delay by; 0 stands for a call
\* without a status code
FailureStatuses == {0, 429, 503}

FailureFactor(status) ==
    IF status = 429 THEN Frac(2, 1)
    ELSE IF status \in {503, 502, 504} THEN Frac(3, 2)
    ELSE Frac(6, 5)

\* "max(self.min_interval, self.current_delay * 0.9)"
SuccessDelay(interval, delay) == FracMax(interval, FracMul(delay, Frac(9, 10)))

Reporting(th) == aPc[th] # "idle"

Quiescent == \A th \in Reporters : ~Reporting(th)

\* A limiter as constructed, or one on which enable_adaptive_mode() and up to
\* four report_success() calls have run since.
AdaptiveInit ==
    /\ \E rate \in RateChoices : min_interval = IntervalOf(rate)
    /\ current_delay = min_interval
    /\ \/ adaptive_mode = FALSE /\ success_count = 0
       \/ adaptive_mode = TRUE /\ success_count \in 0..4
    /\ failure_count = 0
    /\ aPc = [th \in Reporters |-> "idle"]
    /\ aReg = [th \in Reporters |-> Frac(0, 1)]
    /\ aStatus = [th \in Reporters |-> 0]
    /\ aFailureCalls = 0
    /\ aOps = 0

enable_adaptive_mode ==
    /\ aOps < MaxReports
    /\ aOps' = aOps + 1
    /\ adaptive_mode' = TRUE
    /\ UNCHANGED <<min_interval, current_delay, success_count, failure_count, aPc, aReg,
                   aStatus, aFailureCalls, otherThanAdaptive>>

disable_adaptive_mode ==
    /\ aOps < MaxReports
    /\ aOps' = aOps + 1
    /\ adaptive_mode' = FALSE
    /\ current_delay' = min_interval
    /\ UNCHANGED <<min_interval, success_count, failure_count, aPc, aReg, aStatus,
                   aFailureCalls, otherThanAdaptive>>

set_rate(rate) ==
    /\ aOps < MaxReports
    /\ aOps' = aOps + 1
    /\ min_interval' = IntervalOf(rate)
    /\ current_delay' = IF adaptive_mode THEN current_delay ELSE IntervalOf(rate)
    /\ UNCHANGED <<adaptive_mode, success_count, failure_count, aPc, aReg, aStatus,
                   aFailureCalls, otherThanAdaptive>>

\* report_failure(status): "if self.adaptive_mode", then the load of
\* "self.failure_count += 1"
ReportFailureCall(th, status) ==
    /\ aPc[th] = "idle"
    /\ aOps < MaxReports
    /\ aOps' = aOps + 1
    /\ IF adaptive_mode
       THEN /\ aPc' = [aPc EXCEPT ![th] = "failure_count_loaded"]
            /\ aReg' = [aReg EXCEPT ![th] = Frac(failure_count, 1)]
            /\ aStatus' = [aStatus EXCEPT ![th] = status]
            /\ aFailureCalls' = aFailureCalls + 1
       ELSE UNCHANGED <<aPc, aReg, aStatus, aFailureCalls>>
    /\ UNCHANGED <<min_interval, adaptive_mode, current_delay, success_count,
                   failure_count, otherThanAdaptive>>

\* the store of "self.failure_count += 1"
FailureStoreCount(th) ==
    /\ aPc[th] = "failure_count_loaded"
    /\ failure_count' = aReg[th].num + 1
    /\ aPc' = [aPc EXCEPT ![th] = "failure_counted"]
    /\ UNCHANGED <<min_interval, adaptive_mode, current_delay, success_count, aReg,
                   aStatus, aFailureCalls, aOps, otherThanAdaptive>>

\* the load of "self.current_delay *= factor"
FailureLoadDelay(th) ==
    /\ aPc[th] = "failure_counted"
    /\ aReg' = [aReg EXCEPT ![th] = current_delay]
    /\ aPc' = [aPc EXCEPT ![th] = "delay_loaded"]
    /\ UNCHANGED <<min_interval, adaptive_mode, current_delay, success_count,
                   failure_count, aStatus, aFailureCalls, aOps, otherThanAdaptive>>

\* the store of "self.current_delay *= factor"
FailureStoreScaled(th) ==
    /\ aPc[th] = "delay_loaded"
    /\ current_delay' = FracMul(aReg[th], FailureFactor(aStatus[th]))
    /\ aPc' = [aPc EXCEPT ![th] = "delay_scaled"]
    /\ UNCHANGED <<min_interval, adaptive_mode, success_count, failure_count, aReg,
                   aStatus, aFailureCalls, aOps, otherThanAdaptive>>

\* the load of "self.current_delay = min(self.current_delay, 30.0)"
FailureLoadCap(th) ==
    /\ aPc[th] = "delay_scaled"
    /\ aReg' = [aReg EXCEPT ![th] = current_delay]
    /\ aPc' = [aPc EXCEPT ![th] = "cap_loaded"]
    /\ UNCHANGED <<min_interval, adaptive_mode, current_delay, success_count,
                   failure_count, aStatus, aFailureCalls, aOps, otherThanAdaptive>>

\* the store of the capped delay, then "self.success_count = 0"; the call returns
FailureStoreCap(th) ==
    /\ aPc[th] = "cap_loaded"
    /\ current_delay' = DelayCap(aReg[th])
    /\ success_count' = 0
    /\ aPc' = [aPc EXCEPT ![th] = "idle"]
    /\ aReg' = [aReg EXCEPT ![th] = Frac(0, 1)]
    /\ aStatus' = [aStatus EXCEPT ![th] = 0]
    /\ UNCHANGED <<min_interval, adaptive_mode, failure_count, aFailureCalls, aOps,
                   otherThanAdaptive>>

\* report_success(): "if self.adaptive_mode", then the load of
\* "self.success_count += 1"
ReportSuccessCall(th) ==
    /\ aPc[th] = "idle"
    /\ aOps < MaxReports
    /\ aOps' = aOps + 1
    /\ IF adaptive_mode
       THEN /\ aPc' = [aPc EXCEPT ![th] = "success_count_loaded"]
            /\ aReg' = [aReg EXCEPT ![th] = Frac(success_count, 1)]
       ELSE UNCHANGED <<aPc, aReg>>
    /\ UNCHANGED <<min_interval, adaptive_mode, current_delay, success_count,
                   failure_count, aStatus, aFailureCalls, otherThanAdaptive>>

\* the store of "self.success_count += 1"
SuccessStoreCount(th) ==
    /\ aPc[th] = "success_count_loaded"
    /\ success_count' = aReg[th].num + 1
    /\ aPc' = [aPc EXCEPT ![th] = "success_counted"]
    /\ UNCHANGED <<min_interval, adaptive_mode, current_delay, failure_count, aReg,
                   aStatus, aFailureCalls, aOps, otherThanAdaptive>>

\* "if self.success_count >= 5": the loads of the max(...) expression, or the
\* return
SuccessTest(th) ==
    /\ aPc[th] = "success_counted"
    /\ IF success_count >= 5
       THEN /\ aReg' = [aReg EXCEPT ![th] = SuccessDelay(min_interval, current_delay)]
            /\ aPc' = [aPc EXCEPT ![th] = "decrease_computed"]
       ELSE /\ aReg' = [aReg EXCEPT ![th] = Frac(0, 1)]
            /\ aPc' = [aPc EXCEPT ![th] = "idle"]
    /\ UNCHANGED <<min_interval, adaptive_mode, current_delay, success_count,
                   failure_count, aStatus, aFailureCalls, aOps, otherThanAdaptive>>

\* the store of the decreased delay, then "self.success_count = 0"
SuccessStoreDelay(th) ==
    /\ aPc[th] = "decrease_computed"
    /\ current_delay' = aReg[th]
    /\ success_count' = 0
    /\ aPc' = [aPc EXCEPT ![th] = "idle"]
    /\ aReg' = [aReg EXCEPT ![th] = Frac(0, 1)]
    /\ UNCHANGED <<min_interval, adaptive_mode, failure_count, aStatus, aFailureCalls,
                   aOps, otherThanAdaptive>>

AdaptiveNext ==
    \/ enable_adaptive_mode
    \/ disable_adaptive_mode
    \/ \E rate \in RateChoices : set_rate(rate)
    \/ \E th \in Reporters, status \in FailureStatuses : ReportFailureCall(th, status)
    \/ \E th \in Reporters : FailureStoreCount(th)
    \/ \E th \in Reporters : FailureLoadDelay(th)
    \/ \E th \in Reporters : FailureStoreScaled(th)
    \/ \E th \in Reporters : FailureLoadCap(th)
    \/ \E th \in Reporters : FailureStoreCap(th)
    \/ \E th \in Reporters : ReportSuccessCall(th)
    \/ \E th \in Reporters : SuccessStoreCount(th)
    \/ \E th \in Reporters : SuccessTest(th)
    \/ \E th \in Reporters : SuccessStoreDelay(th)

(***************************************************************************)
(* The UserAgentRotator.  Agents are numbered: the first NumDefault are the *)
(* entries of default_agents, the others are strings a caller brings.       *)
(***************************************************************************)
DefaultAgents == [i \in 1..NumDefault |-> i]

AgentNames == 1..(NumDefault + NumCustom)

BrowserKinds == {"chrome", "firefox", "safari", "mobile"}

\* the substring tests of get_chrome_agent, get_firefox_agent,
\* get_safari_agent and get_mobile_agent, on the numbered agents
MatchesKind(kind, agent) ==
    \/ kind = "chrome" /\ agent % 4 = 1
    \/ kind = "firefox" /\ agent % 4 = 2
    \/ kind \in {"safari", "mobile"} /\ agent % 4 = 3

Elems(list) == {list[i] : i \in 1..Len(list)}

\* "[agent for agent in self.all_agents if ...]"
RECURSIVE AgentsOfKind(_, _)
AgentsOfKind(list, kind) ==
    IF list = <<>> THEN <<>>
    ELSE IF MatchesKind(kind, Head(list))
         THEN <<Head(list)>> \o AgentsOfKind(Tail(list), kind)
         ELSE AgentsOfKind(Tail(list), kind)

NoAgent == [kind |-> "none yet", agent |-> 0]

RotatorInit ==
    /\ custom_agents \in SeqsUpTo(AgentNames, MaxCustomArg)
    /\ all_agents = DefaultAgents \o custom_agents
    /\ usage_stats = [a \in Elems(all_agents) |-> 0]
    /\ uOp = "__init__"
    /\ uResult = NoAgent

\* "agent = random.choice(candidates); self.usage_stats[agent] += 1; return agent"
\* random.choice raises IndexError on an empty list, and the increment raises
\* KeyError for an agent without a counter.
ChooseAndCount(candidates) ==
    IF candidates = <<>>
    THEN /\ uResult' = [kind |-> "IndexError", agent |-> 0]
         /\ UNCHANGED usage_stats
    ELSE \E i \in 1..Len(candidates) :
            LET agent == candidates[i]
            IN  IF agent \in DOMAIN usage_stats
                THEN /\ usage_stats[agent] < MaxUses
                     /\ usage_stats' = [usage_stats EXCEPT ![agent] = @ + 1]
                     /\ uResult' = [kind |-> "agent", agent |-> agent]
                ELSE /\ uResult' = [kind |-> "KeyError", agent |-> agent]
                     /\ UNCHANGED usage_stats

get_random_agent ==
    /\ ChooseAndCount(all_agents)
    /\ uOp' = "get_random_agent"
    /\ UNCHANGED <<all_agents, custom_agents, otherThanRotator>>

\* get_chrome_agent, get_firefox_agent, get_safari_agent, get_mobile_agent:
\* a choice among the agents of that kind, or get_random_agent() if there is none
get_kind_agent(kind) ==
    /\ LET candidates == AgentsOfKind(all_agents, kind)
       IN  IF candidates # <<>> THEN ChooseAndCount(candidates)
           ELSE ChooseAndCount(all_agents)
    /\ uOp' = "get_kind_agent"
    /\ UNCHANGED <<all_agents, custom_agents, otherThanRotator>>

add_custom_agent(user_agent) ==
    /\ IF ~InList(user_agent, all_agents)
       THEN /\ custom_agents' = Append(custom_agents, user_agent)
            /\ all_agents' = Append(all_agents, user_agent)
            /\ usage_stats' = [a \in DOMAIN usage_stats \cup {user_agent} |->
                                  IF a = user_agent THEN 0 ELSE usage_stats[a]]
       ELSE UNCHANGED <<custom_agents, all_agents, usage_stats>>
    /\ uOp' = "add_custom_agent"
    /\ UNCHANGED <<uResult, otherThanRotator>>

\* list.remove drops the first occurrence only; del drops the counter
remove_agent(user_agent) ==
    /\ custom_agents' = ListRemove(custom_agents, user_agent)
    /\ all_agents' = ListRemove(all_agents, user_agent)
    /\ usage_stats' = [a \in DOMAIN usage_stats \ {user_agent} |-> usage_stats[a]]
    /\ uOp' = "remove_agent"
    /\ UNCHANGED <<uResult, otherThanRotator>>

reset_stats ==
    /\ usage_stats' = [a \in DOMAIN usage_stats \cup Elems(all_agents) |->
                          IF a \in Elems(all_agents) THEN 0 ELSE usage_stats[a]]
    /\ uOp' = "reset_stats"
    /\ UNCHANGED <<all_agents, custom_agents, uResult, otherThanRotator>>

RotatorNext ==
    \/ get_random_agent
    \/ \E kind \in BrowserKinds : get_kind_agent(kind)
    \/ \E a \in AgentNames : add_custom_agent(a)
    \/ \E a \in AgentNames : remove_agent(a)
    \/ reset_stats

BatchIdle ==
    /\ bOp = "scrape_multiple"
    /\ urls = <<>>
    /\ outcome = <<>>
    /\ batch_size = 1
    /\ bPc = "idle"
    /\ bPos = 0
    /\ bTask = <<>>
    /\ bTaskResult = <<>>
    /\ bDoneOrder = <<>>
    /\ all_results = <<>>

FetchIdle ==
    /\ max_retries = 3
    /\ concurrent_limit = 1
    /\ semaphore = 1
    /\ sessions = EmptyMap
    /\ constructed = <<>>
    /\ connector_cache = {}
    /\ handle_config = <<>>
    /\ session_stats = EmptyMap
    /\ global_failure_rate = ZeroRate
    /\ fPc = EmptyMap
    /\ fSid = EmptyMap
    /\ fHandle = EmptyMap
    /\ fRetries = EmptyMap
    /\ fAdaptive = EmptyMap
    /\ fDispatches = EmptyMap
    /\ fWaits = EmptyMap
    /\ fBackoff = EmptyMap
    /\ fResult = EmptyMap

LimiterIdle ==
    /\ now = 0
    /\ min_interval = 1
    /\ burst_limit = 5
    /\ last_request_time = 0
    /\ request_times = <<>>
    /\ lock = 0
    /\ adaptive_mode = FALSE
    /\ current_delay = 1
    /\ rPc = EmptyMap
    /\ rWake = EmptyMap
    /\ rReturns = <<>>
    /\ rPenalties = 0

ProxyIdle ==
    /\ proxy_list = <<>>
    /\ working_proxies = <<>>
    /\ failed_proxies = <<>>
    /\ last_validation = 0
    /\ pClock = ProxyEpoch
    /\ pOp = "__init__"
    /\ pResult = NoAnswer

NoCloseCalls ==
    /\ closedHandles = {}
    /\ cPc = "idle"
    /\ cSeen = 0
    /\ cSize = 0
    /\ cCalls = 0
    /\ mOp = "__init__"
    /\ mRaised = "none"

ManagerIdle == mKind = "async" /\ NoCloseCalls

AdaptiveIdle ==
    /\ success_count = 0
    /\ failure_count = 0
    /\ aPc = EmptyMap
    /\ aReg = EmptyMap
    /\ aStatus = EmptyMap
    /\ aFailureCalls = 0
    /\ aOps = 0

\* the wait() side of a limiter on which no wait() call is made
WaitIdle ==
    /\ now = 0
    /\ burst_limit = 5
    /\ last_request_time = 0
    /\ request_times = <<>>
    /\ lock = 0
    /\ rPc = EmptyMap
    /\ rWake = EmptyMap
    /\ rReturns = <<>>
    /\ rPenalties = 0

\* a rotator built without custom agents, not used
RotatorIdle ==
    /\ custom_agents = <<>>
    /\ all_agents = DefaultAgents
    /\ usage_stats = [a \in Elems(all_agents) |-> 0]
    /\ uOp = "__init__"
    /\ uResult = NoAgent

MoreIdle == AdaptiveIdle /\ RotatorIdle

TuningIdle ==
    /\ tBase = 3
    /\ tRates = <<ZeroRate, ZeroRate>>
    /\ tAttempt = 0
    /\ tRetries = EmptyMap
    /\ tBackoff = EmptyMap

\* C1: when a batch operation returns, its list has one entry per input URL and
\* the i-th entry is the result of the i-th input URL's own task, whatever order
\* the tasks completed in; failed items are kept.
C1_BatchOrder ==
    bPc = "returned" =>
        /\ Len(all_results) = Len(urls)
        /\ \A i \in 1..Len(urls) :
              /\ all_results[i].kind = "dict"
              /\ all_results[i].url = urls[i]
              /\ all_results[i].task = i

\* A concurrent batch of three URLs whose tasks completed out of input order,
\* one of them failing, has returned.
C1_Witness ==
    /\ bPc = "returned"
    /\ bOp = "scrape_multiple"
    /\ bDoneOrder = <<3, 1, 2>>
    /\ outcome[2] # "ok"
    /\ urls[1] # urls[3]

\* C2: the batch call never raises, the entry of a URL whose fetch raised is an
\* error result carrying that exception's message, and every other entry is a
\* success exactly when its own fetch succeeded.
C2_FailureIsolation ==
    /\ bPc # "raised"
    /\ bPc = "returned" =>
          \A i \in 1..Len(urls) :
              IF outcome[i] = "ok"
              THEN all_results[i].status = "success" /\ all_results[i].error = "none"
              ELSE all_results[i].status = "error" /\ all_results[i].error = outcome[i]

\* u1, u2, u3 with a fetch that fails only for the second: three results, the
\* second a failure, the others successes.
C2_Witness ==
    /\ bPc = "returned"
    /\ bOp = "make_concurrent_requests"
    /\ Len(urls) = 3
    /\ outcome = <<"ok", "refused", "ok">>
    /\ all_results[2].status = "error"
    /\ all_results[1].status = "success"
    /\ all_results[3].status = "success"

\* C3: every fetch ends, as a success or as a failure, and stays there: a
\* state is reached where all fetches are at a terminal position, a terminal
\* position and its outcome never change again, and the outcome recorded is
\* the one of the position.
C3_FetchTerminates ==
    /\ <>(\A t \in Fetches : Terminal(t))
    /\ [][\A t \in Fetches :
            Terminal(t) => fPc'[t] = fPc[t] /\ fResult'[t] = fResult[t]]_vars
    /\ [](\A t \in Fetches :
            /\ fPc[t] = "succeeded" <=> fResult[t].kind = "success"
            /\ fPc[t] = "failed" <=> fResult[t].kind = "failure")

\* One fetch has failed after timing out on every attempt of a retry loop of
\* several attempts, while another one has succeeded.
C3_Witness ==
    \E t, u \in Fetches :
        /\ fPc[t] = "failed"
        /\ fResult[t].error = "timeout"
        /\ fResult[t].attempts >= 3
        /\ fPc[u] = "succeeded"

\* C4: in the concurrent engine the fetches inside the admitted section of
\* make_request never outnumber concurrent_limit, every admitted fetch holds
\* exactly one slot, and all slots are back once every fetch has ended.
C4_BoundedConcurrency ==
    LET admitted == Cardinality({t \in Fetches : Admitted(t)})
    IN  mKind = "async" =>
            /\ admitted <= concurrent_limit
            /\ semaphore + admitted = concurrent_limit
            /\ (\A t \in Fetches : Terminal(t)) => semaphore = concurrent_limit

\* All slots are taken by fetches sleeping in a backoff or awaiting the network
\* while another fetch is queued for a slot and one has already left by raising.
C4_Witness ==
    /\ mKind = "async"
    /\ semaphore = 0
    /\ \E t \in Fetches : fPc[t] = "backoff"
    /\ \E t \in Fetches : fPc[t] = "queued"
    /\ Cardinality({t \in Fetches : Admitted(t)}) = concurrent_limit

\* C5 as stated: a fetch through AsyncSessionManager whose every attempt failed
\* made max_retries + 1 dispatches.
C5_Original ==
    mKind = "async" =>
        \A t \in Fetches : fPc[t] = "failed" => fResult[t].attempts = max_retries + 1

\* C5, amended: make_request sets adaptive_retries from max_retries and the
\* global failure rate as it starts (max(1, m-1) below 0.1, m below 0.3,
\* min(m+2, 10) from 0.3 on), and a fetch whose every attempt fails makes
\* exactly adaptive_retries + 1 dispatches and then ends in a failure.
C5_AdaptiveAttempts ==
    [][mKind = "async" => \A t \in Fetches :
          /\ (fPc[t] = "queued" /\ fPc'[t] = "dispatched") =>
                fAdaptive'[t] =
                    IF 10 * global_failure_rate.num < global_failure_rate.den
                    THEN (IF max_retries - 1 > 1 THEN max_retries - 1 ELSE 1)
                    ELSE IF 10 * global_failure_rate.num < 3 * global_failure_rate.den
                         THEN max_retries
                         ELSE (IF max_retries + 2 < 10 THEN max_retries + 2 ELSE 10)
          /\ (fPc[t] = "dispatched" /\ fPc'[t] = "failed") =>
                /\ fDispatches[t] = fAdaptive[t] + 1
                /\ fResult'[t].kind = "failure"
                /\ fResult'[t].attempts = fDispatches[t]
          /\ (fPc[t] = "dispatched" /\ fPc'[t] = "backoff") =>
                fDispatches[t] <= fAdaptive[t]]_vars

\* With max_retries = 2 and a failure rate between 0.1 and 0.3 a fetch has
\* failed after exactly 3 dispatches.
C5_Witness ==
    \E t \in Fetches :
        /\ mKind = "async"
        /\ max_retries = 2
        /\ fPc[t] = "failed"
        /\ fResult[t].attempts = 3

\* C6: in fixed mode two consecutive returns of wait() on one limiter are at
\* least min_interval (1/r) apart, so N returns span at least (N-1)/r, for
\* one caller and for concurrent callers.
C6_MinimumSpacing ==
    ~adaptive_mode =>
        /\ \A k \in 1..(Len(rReturns) - 1) : rReturns[k + 1] - rReturns[k] >= min_interval
        /\ Len(rReturns) >= 1 =>
              rReturns[Len(rReturns)] - rReturns[1] >= (Len(rReturns) - 1) * min_interval

\* Three calls have returned in fixed mode with an interval of several ticks,
\* while a second thread is already waiting for the lock.
C6_Witness ==
    /\ ~adaptive_mode
    /\ min_interval >= 2
    /\ Len(rReturns) = 3
    /\ burst_limit > 1

\* C7: the global failure rate lies in [0, 1], and is 0 while no request is recorded.
C7_RateInUnitInterval ==
    /\ 0 <= global_failure_rate.num
    /\ global_failure_rate.num <= global_failure_rate.den
    /\ SumOver(session_stats, "requests_made", DOMAIN session_stats) = 0
          => global_failure_rate.num = 0

\* C8: at most one handle is ever constructed per session id, every fetch got
\* the handle the manager holds for its id, and two fetches got the same handle
\* exactly when they use the same id.
C8_OneHandlePerSession ==
    /\ \A i, j \in 1..Len(constructed) : constructed[i] = constructed[j] => i = j
    /\ \A t \in Fetches :
          fHandle[t] # 0 => fSid[t] \in DOMAIN sessions /\ sessions[fSid[t]] = fHandle[t]
    /\ \A t, u \in Fetches :
          fHandle[t] # 0 /\ fHandle[u] # 0 =>
              (fSid[t] = fSid[u] <=> fHandle[t] = fHandle[u])
    /\ \A a, b \in DOMAIN sessions : a # b => sessions[a] # sessions[b]

\* Two fetches admitted at the same time made the first use of a session id
\* next to an older handle of another id: one handle was built, both hold it.
C8_Witness ==
    /\ constructed = <<"default", "aux">>
    /\ \E t, u \in Fetches :
          /\ t # u
          /\ Admitted(t) /\ Admitted(u)
          /\ fSid[t] = "aux" /\ fSid[u] = "aux"
          /\ fHandle[t] = 2 /\ fHandle[u] = 2

\* C9: when get_proxy() has just run, it did not raise; what it returned is
\* None or a proxy that is in working_proxies; and it returned None if
\* working_proxies is empty, also when its own validation pass emptied it.
C9_GetProxyContract ==
    pOp = "get_proxy" =>
        /\ pResult.kind \in {"None", "proxy"}
        /\ pResult.kind = "proxy" => InList(pResult.proxy, working_proxies)
        /\ working_proxies = <<>> => pResult.kind = "None"

\* C10: a close_all call that has ended has not raised, and when it has just
\* returned the manager holds no handles.
C10_CloseAllNeverRaises ==
    /\ cPc # "raised"
    /\ (mOp = "close_all" /\ cPc = "returned") => sessions = EmptyMap

\* C11: in the concurrent engine a fetch calls RateLimiter.wait() only after it
\* has taken its slot: a fetch that is in wait() or has been through it holds or
\* has held a slot, and a fetch queued for a slot has not been through wait().
C11_WaitAfterSlot ==
    mKind = "async" =>
        \A t \in Fetches :
            /\ fPc[t] = "rate_limited" => fHandle[t] # 0
            /\ fPc[t] = "queued" => fWaits[t] = 0

\* C12: every dispatch, the first one and each retry, has its own wait() call
\* before it: a fetch never has more dispatches behind it than wait() calls.
C12_WaitPerDispatch ==
    \A t \in Fetches :
        /\ fPc[t] \in {"dispatched", "backoff"} => fDispatches[t] <= fWaits[t]
        /\ fPc[t] = "failed" => fResult[t].attempts <= fWaits[t]

\* C13: the step that ends a dispatched attempt of the concurrent engine (by a
\* response, a timeout or a transport error, retried or not) updates the stats
\* record of the fetch's session.
C13_OneRecordPerAttempt ==
    [][mKind = "async" => \A t \in Fetches :
          (fPc[t] = "dispatched" /\ fPc'[t] # "dispatched") =>
              /\ fSid[t] \in DOMAIN session_stats'
              /\ session_stats'[fSid[t]] # StatsEntry(session_stats, fSid[t])]_vars

\* C14: a response with an error status that is not retried ends the fetch as a
\* success carrying that status: no fetch of either engine ends as a failure
\* on such a response.
C14_ErrorStatusIsSuccess ==
    \A t \in Fetches :
        ~(/\ fPc[t] = "failed"
          /\ fResult[t].error = "http"
          /\ fResult[t].status_code >= 400
          /\ ~StatusForced(fResult[t].status_code))

\* C15: a response with a status of the retryable set ends a fetch only when no
\* retry is left; while the budget lasts the attempt is retried.
C15_RetryableStatusRetried ==
    [][\A t \in Fetches :
          (/\ fPc[t] = "dispatched"
           /\ fPc'[t] = "succeeded"
           /\ StatusForced(fResult'[t].status_code)) =>
              ~RetryAllowed(NextRetries(fRetries[t]), fAdaptive[t])]_vars

\* C16: a wait() call whose record brings the timestamps of the last second to
\* burst_limit or more starts the penalty sleep and does not return before
\* the penalty is over; and when more than burst_limit timestamps lie within
\* one second, at least one penalty sleep has been started.
C16_BurstPenalty ==
    /\ [][\A th \in Threads :
            (rPc[th] = "base_sleep" /\ rPc'[th] # "base_sleep") =>
                LET recent == {i \in 1..Len(request_times') :
                                  now - request_times'[i] < WindowTicks}
                IN  Cardinality(recent) >= burst_limit =>
                        /\ rPc'[th] = "penalty_sleep"
                        /\ rWake'[th] = now + PenaltyTicks
                        /\ rPenalties' = rPenalties + 1]_vars
    /\ [][\A th \in Threads :
            (rPc[th] = "penalty_sleep" /\ rPc'[th] # "penalty_sleep") =>
                /\ rPc'[th] = "idle"
                /\ now >= rWake[th]
                /\ rReturns' = Append(rReturns, now)]_vars
    /\ [](\A i, j \in 1..Len(request_times) :
            (j - i >= burst_limit /\ request_times[j] - request_times[i] < WindowTicks)
                => rPenalties >= 1)

\* With burst_limit 2, three requests were recorded within one second and the
\* third call is in its penalty sleep.
C16_Witness ==
    /\ burst_limit = 2
    /\ Len(request_times) = 3
    /\ request_times[3] - request_times[1] < WindowTicks
    /\ \E th \in Threads : rPc[th] = "penalty_sleep" /\ rWake[th] = now + PenaltyTicks

\* C17: the wait() calls that returned within any one-second window number at
\* most burst_limit.
C17_BurstCap ==
    \A i, j \in 1..Len(rReturns) :
        (i <= j /\ rReturns[j] - rReturns[i] < WindowTicks) => j - i + 1 <= burst_limit

\* C18: for two failure rates f1 <= f2 and the same attempt number, the backoff
\* factor and the delay before the retry computed under f2 are at least those
\* computed under f1, in the synchronous and in the asynchronous manager.
C18_BackoffMonotonic ==
    \A kind \in ManagerKinds :
        ({<<kind, 1>>, <<kind, 2>>} \subseteq DOMAIN tBackoff) =>
            /\ tBackoff[<<kind, 1>>].factor <= tBackoff[<<kind, 2>>].factor
            /\ tBackoff[<<kind, 1>>].delay <= tBackoff[<<kind, 2>>].delay

\* Both managers have computed their backoff under a rate below 0.1 and under
\* a rate of 0.3 or more, for a retry after the first, and the second delay is
\* the larger one.
C18_Witness ==
    /\ RateBelow(tRates[1], 1)
    /\ ~RateBelow(tRates[2], 3)
    /\ tAttempt >= 1
    /\ DOMAIN tBackoff = ManagerKinds \X {1, 2}
    /\ \A kind \in ManagerKinds :
           tBackoff[<<kind, 1>>].delay < tBackoff[<<kind, 2>>].delay

\* C19: for every base max_retries >= 0 and two failure rates f1 <= f2, the
\* retry count computed under f2 is at least the one computed under f1.
C19_RetriesMonotonic ==
    (DOMAIN tRetries = {1, 2}) => tRetries[1] <= tRetries[2]

\* C20: a get_proxy() call made on a non-empty pool when more than
\* validation_interval has passed since the last validation runs a validation
\* pass (which sets last_validation to the current time), also when no proxy
\* is in working_proxies.
C20_RevalidationOnGetProxy ==
    [][(/\ pOp' = "get_proxy"
        /\ (pOp # "get_proxy" \/ pResult' # pResult \/ last_validation' # last_validation)
        /\ proxy_list # <<>>
        /\ ValidationDue(pClock, last_validation))
           => last_validation' = pClock]_vars

\* C21: after construction and after every operation of the ProxyHandler the
\* proxies of proxy_list are exactly those of working_proxies and
\* failed_proxies together, and no proxy is in both partitions.
C21_PoolIsUnionOfPartitions ==
    /\ Elems(proxy_list) = Elems(working_proxies) \cup Elems(failed_proxies)
    /\ Elems(working_proxies) \cap Elems(failed_proxies) = {}

\* C25: a caller that is asleep inside wait() (the base or adaptive sleep, or
\* the burst penalty sleep) does not hold the lock of the limiter.
C25_NoLockWhileSleeping ==
    \A th \in Threads :
        (rPc[th] \in {"base_sleep", "penalty_sleep"} /\ rWake[th] > now) => lock # th

\* C22: in adaptive mode, when no report call is under way, current_delay is
\* at most 30 seconds.
C22_DelayCapped ==
    (adaptive_mode /\ Quiescent) => FracLeq(current_delay, Frac(30, 1))

\* C26 (a consequence of it): when every report call has returned,
\* failure_count is the number of report_failure() calls made in adaptive mode.
C26_NoLostFailureCount ==
    Quiescent => failure_count = aFailureCalls

\* C30: in adaptive mode, when no report call is under way, current_delay is
\* not below min_interval.
C30_DelayAtLeastInterval ==
    (adaptive_mode /\ Quiescent) => FracLeq(min_interval, current_delay)

\* C23: the agents that have a counter in usage_stats are exactly the agents
\* of all_agents, and no get_*_agent call fails on a missing counter.
C23_NoOrphanCounters ==
    /\ DOMAIN usage_stats = Elems(all_agents)
    /\ uResult.kind # "KeyError"

\* C24: when close_session(id) has returned, the manager holds neither the
\* handle entry nor the stats record of that id, and the entries and records of
\* the other ids are as they were.
C24_CloseSessionDropsBookkeeping ==
    [][\A sid \in DOMAIN sessions :
          (/\ mOp' = "close_session" /\ mRaised' = "none"
           /\ sid \notin DOMAIN sessions')
              => /\ sid \notin DOMAIN session_stats'
                 /\ \A x \in DOMAIN sessions \ {sid} :
                       /\ x \in DOMAIN sessions' /\ sessions'[x] = sessions[x]
                       /\ StatsEntry(session_stats', x) = StatsEntry(session_stats, x)]_vars

\* C27: the retry count a fetch starts with, and in the synchronous engine the
\* backoff factor of the handle it goes through, are the ones derived from the
\* global failure rate of the moment the fetch starts.
C27_TierOfFetchStart ==
    [][\A t \in Fetches :
          (fPc[t] # "dispatched" /\ fPc'[t] = "dispatched" /\ fDispatches'[t] = 1) =>
              /\ fAdaptive'[t] = calculate_adaptive_retries(max_retries, global_failure_rate)
              /\ mKind = "sync" =>
                    handle_config'[fHandle'[t]].backoff_factor =
                        sync_calculate_adaptive_backoff(global_failure_rate)]_vars

\* C28: within one fetch the delay slept before a retry is not shorter than
\* the delay slept before the retry preceding it.
C28_DelaysNeverDecrease ==
    [][\A t \in Fetches :
          (fPc[t] = "dispatched" /\ fPc'[t] = "backoff" /\ fRetries[t] >= 1) =>
              fBackoff'[t] >= fBackoff[t]]_vars

\* C29: in scrape_with_concurrency_control with batch_size b >= 1, no URL of a
\* later batch is started before every URL of the batches before it is done,
\* at most b fetches are running at any time, a pause follows every batch but
\* the last, and no batch starts without the pause after the one before it.
C29_BatchesOneAfterAnother ==
    /\ [](bOp = "scrape_with_concurrency_control" =>
            /\ \A i, j \in 1..Len(urls) :
                  ((i - 1) \div batch_size < (j - 1) \div batch_size
                      /\ bTask[j] # "unstarted") => bTask[i] = "done"
            /\ Cardinality({i \in 1..Len(urls) : bTask[i] = "running"}) <= batch_size)
    /\ [][bOp = "scrape_with_concurrency_control" =>
            /\ (bPc = "gathering" /\ bPc' # "gathering") =>
                  bPc' = IF bPos + batch_size < Len(urls) THEN "pause" ELSE "returned"
            /\ bPos' # bPos => (bPc = "pause" /\ bPos' = bPos + batch_size)]_vars

\* Three URLs in batches of two: the first batch is done and in all_results,
\* the pause is over and the third URL is running.
C29_Witness ==
    /\ bOp = "scrape_with_concurrency_control"
    /\ batch_size = 2
    /\ Len(urls) = 3
    /\ bPc = "gathering"
    /\ bPos = 2
    /\ bTask = <<"done", "done", "running">>
    /\ Len(all_results) = 2

InitBatch == BatchInit /\ FetchIdle /\ LimiterIdle /\ ProxyIdle /\ ManagerIdle /\ TuningIdle /\ MoreIdle

SpecBatch ==
    /\ InitBatch
    /\ [][BatchNext]_vars

InitFetch == FetchInit /\ BatchIdle /\ LimiterIdle /\ ProxyIdle /\ NoCloseCalls /\ TuningIdle /\ MoreIdle

SpecFetch ==
    /\ InitFetch
    /\ [][FetchNext]_vars

InitLimiter == LimiterInit /\ BatchIdle /\ FetchIdle /\ ProxyIdle /\ ManagerIdle /\ TuningIdle /\ MoreIdle

InitProxy == ProxyInit /\ BatchIdle /\ FetchIdle /\ LimiterIdle /\ ManagerIdle /\ TuningIdle /\ MoreIdle

InitManager == ManagerInit /\ BatchIdle /\ FetchIdle /\ LimiterIdle /\ ProxyIdle /\ TuningIdle /\ MoreIdle

SpecManager ==
    /\ InitManager
    /\ [][ManagerNext]_vars


SpecProxy ==
    /\ InitProxy
    /\ [][ProxyNext]_vars

SpecLimiter ==
    /\ InitLimiter
    /\ [][LimiterNext]_vars

InitAdaptive ==
    /\ AdaptiveInit /\ WaitIdle /\ BatchIdle /\ FetchIdle /\ ProxyIdle /\ ManagerIdle
    /\ TuningIdle /\ RotatorIdle

InitRotator ==
    /\ RotatorInit /\ BatchIdle /\ FetchIdle /\ LimiterIdle /\ ProxyIdle /\ ManagerIdle
    /\ TuningIdle /\ AdaptiveIdle

SpecRotator ==
    /\ InitRotator
    /\ [][RotatorNext]_vars

SpecAdaptive ==
    /\ InitAdaptive
    /\ [][AdaptiveNext]_vars

InitRetry ==
    /\ RetryInit /\ BatchIdle /\ LimiterIdle /\ ProxyIdle /\ NoCloseCalls /\ TuningIdle
    /\ MoreIdle

SpecRetry ==
    /\ InitRetry
    /\ [][RetryNext]_vars

InitTuning ==
    /\ TuningInit /\ BatchIdle /\ FetchIdle /\ LimiterIdle /\ ProxyIdle /\ ManagerIdle
    /\ MoreIdle

SpecTuning ==
    /\ InitTuning
    /\ [][TuningNext]_vars

InitScrape == ScrapeInit /\ BatchIdle /\ LimiterIdle /\ ProxyIdle /\ NoCloseCalls /\ TuningIdle /\ MoreIdle

\* The event loop (or the calling thread) runs every fetch that can take a
\* step, every sleep ends and the transport answers or times out.
FairSpecScrape ==
    /\ InitScrape
    /\ [][ScrapeNext]_vars
    /\ WF_vars(ScrapeNext)

====
